---- MODULE Spec2Model ----
(***************************************************************************)
(* Model of the upload-and-transcribe pipeline of sinhala-voice-transcript. *)
(*                                                                         *)
(*   SpecUpload      the upload endpoint (app/api/upload/route.ts) with    *)
(*                   the Storage Uploader (lib/gcs.ts)                     *)
(*   SpecTranscribe  the transcribe endpoint (app/api/transcribe/route.ts) *)
(*                   with transcribeAudio (the language-mode speech lib)   *)
(*   SpecWhisper     the direct-provider endpoint (app/api/whisper)        *)
(*   SpecNormalize   processTranscriptionResponse as a pure function       *)
(*                                                                         *)
(* An error message is a record [text, kw]: its text and the set of those  *)
(* substrings the code tests with String.includes that the text contains.  *)
(* A string of the program that the code inspects character by character   *)
(* (a transcript, a file name) is a sequence of one-character strings.     *)
(***************************************************************************)
EXTENDS Integers, Sequences, FiniteSets, TLC

VARIABLES
    env,            \* process.env: the set of variables that have a value
    u_pc,           \* upload endpoint: position of the handler
    u_file,         \* upload endpoint: the 'audio' form field
    u_key,          \* upload endpoint: the generated storage key (fileName)
    uploadAttempts, \* upload endpoint: the retry loop's counter
    u_calls,        \* upload endpoint: outcomes of the uploadToGCS calls
    u_writes,       \* upload endpoint: keys handed to file.save, in order
    u_waits,        \* upload endpoint: backoff delays awaited (ms), in order
    u_resp,         \* upload endpoint: the HTTP response
    n_pc,           \* normalization: "input" before, "done" after the call
    n_response,     \* normalization: the provider response passed in
    n_mode,         \* normalization: the languageMode passed in
    n_result,       \* normalization: the TranscriptionResult returned
    t_pc,           \* transcribe endpoint: position of the handler
    t_req,          \* transcribe endpoint: the JSON body
    t_subs,         \* transcribe endpoint: configs submitted to the provider
    t_outcomes,     \* transcribe endpoint: how the submissions settled
    t_result,       \* transcribe endpoint: what transcribeAudio returned
    t_thrown,       \* transcribe endpoint: what transcribeAudio threw
    t_resp,         \* transcribe endpoint: the HTTP response
    w_pc,           \* whisper endpoint: position of the handler
    w_file,         \* whisper endpoint: the 'audio' form field
    w_calls,        \* whisper endpoint: how the provider calls settled
    w_resp,         \* whisper endpoint: the HTTP response
    e_pc,           \* encoding resolution: "input" before, "done" after the call
    e_format,       \* encoding resolution: the format string passed in
    e_encoding,     \* encoding resolution: the encoding returned
    k_now,          \* concurrent uploads: the value of Date.now()
    k_pc,           \* concurrent uploads: position of each request's handler
    k_name,         \* concurrent uploads: each request's file name
    k_draw,         \* concurrent uploads: the timestamp and random id each request drew
    k_key,          \* concurrent uploads: each request's storage key (fileName)
    k_writes,       \* concurrent uploads: the file.save calls, in order
    c_activeTab,    \* client: the selected service tab
    c_languageMode, \* client: the selected language mode
    c_file,         \* client: the selected file (NoFile: null)
    c_uploading,    \* client: the uploading flag
    c_transcribing, \* client: the transcribing flag
    c_transcription,\* client: the displayed result (NullTranscription: null)
    c_error,        \* client: the error state, <<>> for null, <<message>> otherwise
    c_uploadProgress,\* client: the progress text
    c_runs,         \* client: the runs of handleUploadAndTranscribe, in order of start
    c_events,       \* client: the requests issued and responses received, in order
    c_inflight      \* client: the requests that have not been answered yet

u_vars == <<u_pc, u_file, u_key, uploadAttempts, u_calls, u_writes, u_waits, u_resp>>

n_vars == <<n_pc, n_response, n_mode, n_result>>

t_vars == <<t_pc, t_req, t_subs, t_outcomes, t_result, t_thrown, t_resp>>

w_vars == <<w_pc, w_file, w_calls, w_resp>>

e_vars == <<e_pc, e_format, e_encoding>>

k_vars == <<k_now, k_pc, k_name, k_draw, k_key, k_writes>>

c_vars == <<c_activeTab, c_languageMode, c_file, c_uploading, c_transcribing, c_transcription, c_error, c_uploadProgress, c_runs, c_events, c_inflight>>

vars == <<env, u_vars, n_vars, t_vars, w_vars, e_vars, k_vars, c_vars>>

(***************************************************************************)
(* Bounds of the model.                                                    *)
(***************************************************************************)
MaxTime == 2

MaxResults == 2

MaxLen == 2

\* The number of upload requests that run concurrently.
MaxRequests == 2

\* The number of times the user starts handleUploadAndTranscribe.
MaxRuns == 2

(***************************************************************************)
(* Helpers.                                                                *)
(***************************************************************************)
Msg(t, k) == [text |-> t, kw |-> k]

Includes(m, word) == word \in m.kw

NoMsg == Msg("", {})

RECURSIVE Pow2(_)
Pow2(n) == IF n = 0 THEN 1 ELSE 2 * Pow2(n - 1)

Min(a, b) == IF a < b THEN a ELSE b

EnvVars == {"GCP_PROJECT_ID", "GCS_CLIENT_EMAIL", "GCS_PRIVATE_KEY",
            "GCS_BUCKET_NAME", "OPENAI_API_KEY"}

bucketName == "bucket"

(***************************************************************************)
(* Strings as sequences of characters.  "U+0D85" stands for one character  *)
(* of the Sinhala block, "a" and "b" for Latin letters, " " for whitespace.*)
(***************************************************************************)
Chars == {"a", "U+0D85", " "}

IsSpace(c) == c = " "

RECURSIVE TrimStart(_)
TrimStart(s) == IF s # <<>> /\ IsSpace(Head(s)) THEN TrimStart(Tail(s)) ELSE s

RECURSIVE TrimEnd(_)
TrimEnd(s) == IF s # <<>> /\ IsSpace(s[Len(s)]) THEN TrimEnd(SubSeq(s, 1, Len(s) - 1)) ELSE s

\* String.prototype.trim
Trim(s) == TrimEnd(TrimStart(s))

\* Array.prototype.join with an empty separator.
RECURSIVE JoinNoSeparator(_)
JoinNoSeparator(parts) == IF parts = <<>> THEN <<>>
                          ELSE parts[1] \o JoinNoSeparator(Tail(parts))

\* Array.prototype.join(' ')
RECURSIVE Join(_)
Join(parts) == IF parts = <<>> THEN <<>>
               ELSE IF Len(parts) = 1 THEN parts[1]
               ELSE parts[1] \o <<" ">> \o Join(Tail(parts))

\* The number of maximal runs of whitespace in s.
SpaceRuns(s) ==
    Cardinality({i \in 1..Len(s) : IsSpace(s[i]) /\ (i = 1 \/ ~IsSpace(s[i - 1]))})

\* s.split(/\s+/).length: every run of whitespace separates two pieces, the
\* pieces before a leading run and after a trailing run being empty strings.
SplitLength(s) == SpaceRuns(s) + 1

\* (s.match(/[...]/g) || []).length
CountIn(s, set) == Cardinality({i \in 1..Len(s) : s[i] \in set})

SinhalaBlock == {"U+0D85"}

LatinLetters == {"a", "b"}

RECURSIVE SeqsUpTo(_, _)
SeqsUpTo(S, n) ==
    IF n = 0 THEN {<<>>}
    ELSE LET shorter == SeqsUpTo(S, n - 1)
         IN  shorter \cup {Append(s, x) : s \in shorter, x \in S}

RECURSIVE SumSeq(_)
SumSeq(s) == IF s = <<>> THEN 0 ELSE Head(s) + SumSeq(Tail(s))

(***************************************************************************)
(* processTranscriptionResponse (the language-mode version of the speech   *)
(* library).  A confidence is a number of hundredths; NoConfidence stands  *)
(* for a missing (undefined) confidence.  An average is kept exact as the  *)
(* fraction [num, den].  message = "" stands for a result without the      *)
(* message field.                                                          *)
(***************************************************************************)
LanguageModes == {"sinhala", "english", "mixed"}

NoConfidence == -1

ConfidenceSamples == {NoConfidence, 70, 90}

\* Every confidence is sampled with the transcripts of at most one character;
\* the longer transcripts come with one confidence.
Alternatives ==
    [hasTranscript : {TRUE}, transcript : SeqsUpTo(Chars, 1), confidence : ConfidenceSamples]
    \cup [hasTranscript : {TRUE}, transcript : SeqsUpTo(Chars, MaxLen) \ SeqsUpTo(Chars, 1),
          confidence : {90}]
    \cup [hasTranscript : {FALSE}, transcript : {<<>>}, confidence : ConfidenceSamples]

\* A second alternative, which the code never reads.
SecondAlternative == [hasTranscript |-> TRUE, transcript |-> <<"U+0D85">>, confidence |-> 90]

\* A result of the provider: its alternatives (maxAlternatives: 1 is asked
\* for; a result with two alternatives shows which one is read) and its
\* language tag, which the provider sets on some results only.
Results ==
    [alternatives : SeqsUpTo(Alternatives, 1), languageCode : {""}]
    \cup [alternatives : {<<a>> : a \in {x \in Alternatives : x.transcript = <<"a">>}},
          languageCode : {"en-US"}]
    \cup [alternatives : {<<a, SecondAlternative>> :
                             a \in {x \in Alternatives : x.transcript \in {<<>>, <<"a">>}
                                                         /\ x.confidence = 70}},
          languageCode : {""}]

modeLanguage(languageMode, mixedTag) ==
    IF languageMode = "sinhala" THEN "si-LK"
    ELSE IF languageMode = "english" THEN "en-US"
    ELSE mixedTag

Fraction(n, d) == [num |-> n, den |-> d]

Zero == Fraction(0, 1)

\* The results that pass `result.alternatives && result.alternatives.length > 0`,
\* without the `if (transcript)` test.
RECURSIVE contributingWithoutTranscriptTest(_)
contributingWithoutTranscriptTest(results) ==
    IF results = <<>> THEN <<>>
    ELSE LET r == Head(results)
             rest == contributingWithoutTranscriptTest(Tail(results))
         IN  IF Len(r.alternatives) > 0
             THEN <<r.alternatives[1]>> \o rest
             ELSE rest

\* The results that pass `result.alternatives && result.alternatives.length > 0`
\* and then `if (transcript)`, in provider order.
RECURSIVE contributing(_)
contributing(results) ==
    IF results = <<>> THEN <<>>
    ELSE LET r == Head(results)
             rest == contributing(Tail(results))
         IN  IF Len(r.alternatives) > 0
                /\ r.alternatives[1].hasTranscript
                /\ r.alternatives[1].transcript # <<>>
             THEN <<r.alternatives[1]>> \o rest
             ELSE rest

\* The early return of processTranscriptionResponse for an empty result list.
emptyResult(languageMode) ==
    [transcription |-> <<>>,
     confidence |-> Zero,
     segmentCount |-> 0,
     totalWords |-> 0,
     message |-> "No speech detected",
     detectedLanguages |-> IF languageMode = "mixed" THEN {"si-LK", "en-US"}
                           ELSE {IF languageMode = "sinhala" THEN "si-LK" ELSE "en-US"},
     primaryLanguage |-> modeLanguage(languageMode, "mixed")]

\* The primary language with a tie counted for Sinhala.
primaryLanguageTieIsSinhala(fullTranscription, languageMode) ==
    LET sinhalaChars == CountIn(fullTranscription, SinhalaBlock)
        englishChars == CountIn(fullTranscription, LatinLetters)
    IN  IF languageMode = "mixed"
        THEN IF sinhalaChars >= englishChars THEN "si-LK" ELSE "en-US"
        ELSE modeLanguage(languageMode, "mixed")

\* The primary language: fixed by the mode, and in mixed mode by the counts of
\* Sinhala-block and Latin letters of the transcript.
primaryLanguageOf(fullTranscription, languageMode) ==
    LET sinhalaChars == CountIn(fullTranscription, SinhalaBlock)
        englishChars == CountIn(fullTranscription, LatinLetters)
    IN  IF languageMode = "mixed"
        THEN IF sinhalaChars > englishChars THEN "si-LK"
             ELSE IF englishChars > sinhalaChars THEN "en-US"
             ELSE "mixed"
        ELSE modeLanguage(languageMode, "mixed")

\* The rest of processTranscriptionResponse: the loop over the results and the
\* result assembled from it, which has no message field.
normalized(response, languageMode) ==
    LET segs == contributing(response.results)
        allTranscripts == [i \in 1..Len(segs) |-> Trim(segs[i].transcript)]
        allConfidences == [i \in 1..Len(segs) |->
                              IF segs[i].confidence = NoConfidence THEN 0 ELSE segs[i].confidence]
        detectedLanguages ==
            {IF response.results[i].languageCode # "" THEN response.results[i].languageCode
             ELSE modeLanguage(languageMode, "si-LK") :
                 i \in {j \in 1..Len(response.results) : Len(response.results[j].alternatives) > 0}}
        fullTranscription == Join(allTranscripts)
        averageConfidence == IF Len(allConfidences) > 0
                             THEN Fraction(SumSeq(allConfidences), Len(allConfidences))
                             ELSE Zero
        wordCount == IF Trim(fullTranscription) # <<>> THEN SplitLength(fullTranscription) ELSE 0
        primaryLanguage == primaryLanguageOf(fullTranscription, languageMode)
    IN  [transcription |-> fullTranscription,
         confidence |-> averageConfidence,
         segmentCount |-> Len(allTranscripts),
         totalWords |-> wordCount,
         message |-> "",
         detectedLanguages |-> detectedLanguages,
         primaryLanguage |-> primaryLanguage]

\* processTranscriptionResponse without its early return.
processWithoutEarlyReturn(response, languageMode) == normalized(response, languageMode)

processTranscriptionResponse(response, languageMode) ==
    IF Len(response.results) = 0
    THEN emptyResult(languageMode)
    ELSE normalized(response, languageMode)

NoResult == [transcription |-> <<>>, confidence |-> Zero, segmentCount |-> 0, totalWords |-> 0,
             message |-> "", detectedLanguages |-> {}, primaryLanguage |-> ""]

(***************************************************************************)
(* The upload endpoint.                                                    *)
(***************************************************************************)
allowedTypes == {"audio/mpeg", "audio/mp3", "audio/mp4", "audio/wav", "audio/wave",
                 "video/mp4", "audio/webm", "audio/m4a", "audio/ogg", "audio/flac"}

MiB == 1024 * 1024

maxSizeOffByOne == 100 * MiB - 1

maxSize == 100 * MiB

maxSizeWhisper == 25 * MiB

\* The whisper handler has its own list, with the same entries.
allowedTypesWhisper == {"audio/mpeg", "audio/mp3", "audio/mp4", "audio/wav", "audio/wave",
                        "video/mp4", "audio/webm", "audio/m4a", "audio/ogg", "audio/flac"}

maxAttemptsPlusOne == 3 + 1

maxAttempts == 3

\* Inputs: declared media types, sizes and names of the uploaded file.
TypeSamples == {"audio/mpeg", "audio/wav", "video/mp4", "audio/flac",
                "text/plain", "audio/aac", ""}

SizeSamples == {0, maxSizeWhisper, maxSizeWhisper + 1, maxSize, maxSize + 1}

\* A name of 52 characters: 'x xxx...x.wav'.
LongName ==
    [i \in 1..52 |-> IF i = 2 THEN " "
                     ELSE IF i = 49 THEN "."
                     ELSE IF i = 50 THEN "w"
                     ELSE IF i = 51 THEN "a"
                     ELSE IF i = 52 THEN "v"
                     ELSE "x"]

NameSamples == { <<"a", ".", "w", "a", "v">>,
                 <<"a", " ", "b">>,
                 <<"x", "/", "y", ".", "m", "?">>,
                 <<"a", ".">>,
                 LongName }

NoFile == [present |-> FALSE, name |-> <<>>, type |-> "", size |-> 0, readable |-> TRUE]

Files == [present : {TRUE}, name : NameSamples, type : TypeSamples,
          size : SizeSamples, readable : BOOLEAN]

RandomIds == {"k3j9x", "q0z7m"}

\* [a-zA-Z0-9.-], restricted to the characters that occur in NameSamples.
SafeChars == {"a", "b", "m", "p", "v", "w", "x", "y", "3", ".", "-"}

\* file.name.split('.').pop() || 'mp3'
RECURSIVE LastDot(_)
LastDot(s) == IF s = <<>> THEN 0
              ELSE IF s[Len(s)] = "." THEN Len(s)
              ELSE LastDot(SubSeq(s, 1, Len(s) - 1))

extension(name) ==
    LET ext == SubSeq(name, LastDot(name) + 1, Len(name))
    IN  IF ext = <<>> THEN <<"m", "p", "3">> ELSE ext

\* file.name.replace(/[^a-zA-Z0-9.-]/g, '_') without the substring(0, 50).
cleanNameUntruncated(name) ==
    [i \in 1..Len(name) |-> IF name[i] \in SafeChars THEN name[i] ELSE "_"]

\* file.name.replace(/[^a-zA-Z0-9.-]/g, '_').substring(0, 50)
cleanName(name) ==
    LET replaced == [i \in 1..Len(name) |-> IF name[i] \in SafeChars THEN name[i] ELSE "_"]
    IN  SubSeq(replaced, 1, Min(50, Len(replaced)))

\* `audio/${timestamp}-${randomId}-${cleanName}.${extension}` with the random
\* id left out.
fileNameWithoutRandomId(timestamp, randomId, name) ==
    [prefix |-> "audio/", timestamp |-> timestamp, randomId |-> "",
     cleanName |-> cleanName(name), extension |-> extension(name)]

\* `audio/${timestamp}-${randomId}-${cleanName}.${extension}`
fileName(timestamp, randomId, name) ==
    [prefix |-> "audio/", timestamp |-> timestamp, randomId |-> randomId,
     cleanName |-> cleanName(name), extension |-> extension(name)]

\* The characters of a sequence as one string.
RECURSIVE Concat(_)
Concat(s) == IF s = <<>> THEN "" ELSE Head(s) \o Concat(Tail(s))

\* The storage key as the string the template literal evaluates to.
keyString(key) ==
    key.prefix \o ToString(key.timestamp) \o "-" \o key.randomId \o "-"
        \o Concat(key.cleanName) \o "." \o Concat(key.extension)

NoKey == [prefix |-> "", timestamp |-> 0, randomId |-> "", cleanName |-> <<>>, extension |-> <<>>]

NoUri == [scheme |-> "", bucket |-> "", key |-> NoKey]

\* Outcomes of bucket.file(fileName).save(...): success or a thrown error.
SaveErrors == { Msg("error:1E08010C:DECODER routines::unsupported", {"DECODER routines", "unsupported"}),
                Msg("Unauthorized", {"Unauthorized"}),
                Msg("Cannot call write after a stream was destroyed", {"stream was destroyed"}),
                Msg("read ECONNRESET", {}) }

SaveOutcomes == {NoMsg} \cup SaveErrors

credentialsPresent(e) ==
    {"GCP_PROJECT_ID", "GCS_CLIENT_EMAIL", "GCS_PRIVATE_KEY"} \subseteq e

\* The catch block of uploadToGCS: the error it throws for a caught error.
gcsError(err) ==
    IF Includes(err, "DECODER routines") \/ Includes(err, "unsupported")
    THEN Msg("Invalid Google Cloud private key format. Please check your credentials.",
             {"credentials"})
    ELSE IF Includes(err, "authentication") \/ Includes(err, "Unauthorized")
    THEN Msg("Google Cloud authentication failed. Please verify your service account credentials.",
             {"authentication", "credentials"})
    ELSE Msg("Failed to upload to Google Cloud Storage: " \o err.text, err.kw)

\* uploadToGCS with the credential check made after the write.
uploadToGCSLateCheck(e, key, save) ==
    IF save # NoMsg
    THEN [ok |-> FALSE, gcsUri |-> NoUri, saved |-> TRUE, error |-> gcsError(save)]
    ELSE IF ~credentialsPresent(e)
    THEN [ok |-> FALSE, gcsUri |-> NoUri, saved |-> TRUE,
          error |-> gcsError(Msg("Missing required Google Cloud credentials", {"credentials"}))]
    ELSE [ok |-> TRUE, gcsUri |-> [scheme |-> "gs://", bucket |-> bucketName, key |-> key],
          saved |-> TRUE, error |-> NoMsg]

\* uploadToGCS returning the URI of the bucket, the object's key left out.
uploadToGCSUriWithoutKey(e, key, save) ==
    IF ~credentialsPresent(e)
    THEN [ok |-> FALSE, gcsUri |-> NoUri, saved |-> FALSE,
          error |-> gcsError(Msg("Missing required Google Cloud credentials", {"credentials"}))]
    ELSE IF save = NoMsg
    THEN [ok |-> TRUE, gcsUri |-> [scheme |-> "gs://", bucket |-> bucketName, key |-> NoKey],
          saved |-> TRUE, error |-> NoMsg]
    ELSE [ok |-> FALSE, gcsUri |-> NoUri, saved |-> TRUE, error |-> gcsError(save)]

\* uploadToGCS(fileBuffer, fileName, contentType) in environment e, where save
\* is the outcome of file.save should it be reached:
\* [ok, gcsUri, error, saved] with saved = file.save was called.
uploadToGCS(e, key, save) ==
    IF ~credentialsPresent(e)
    THEN [ok |-> FALSE, gcsUri |-> NoUri, saved |-> FALSE,
          error |-> gcsError(Msg("Missing required Google Cloud credentials", {"credentials"}))]
    ELSE IF save = NoMsg
    THEN [ok |-> TRUE, gcsUri |-> [scheme |-> "gs://", bucket |-> bucketName, key |-> key],
          saved |-> TRUE, error |-> NoMsg]
    ELSE [ok |-> FALSE, gcsUri |-> NoUri, saved |-> TRUE, error |-> gcsError(save)]

\* The outer catch of the upload handler: the 500 body for a thrown error.
uploadErrorBody(err) ==
    IF Includes(err, "stream was destroyed")
    THEN "Upload connection was interrupted. Please try again."
    ELSE IF Includes(err, "authentication") \/ Includes(err, "credentials")
    THEN "Authentication error. Please check server configuration."
    ELSE "Upload failed: " \o err.text

Response(status, error, gcsUri) == [status |-> status, error |-> error, gcsUri |-> gcsUri]

NoResp == Response(0, "", NoUri)

\* Math.pow(2, uploadAttempts) * 1000
backoffDelay(attempts) == Pow2(attempts) * 1000

(***************************************************************************)
(* The transcribe endpoint and transcribeAudio.                            *)
(***************************************************************************)
Undefined == "undefined"

\* The letters of the sampled format strings: <<lower case, upper case>>.
LetterCases == {<<"a", "A">>, <<"b", "B">>, <<"c", "C">>, <<"e", "E">>, <<"f", "F">>,
                <<"g", "G">>, <<"l", "L">>, <<"m", "M">>, <<"o", "O">>, <<"p", "P">>,
                <<"v", "V">>, <<"w", "W">>}

lowerCase == [c \in {p[2] : p \in LetterCases} |-> (CHOOSE p \in LetterCases : p[2] = c)[1]]

\* The format string taken as it is, without case folding.
toLowerCaseSkipped(s) == s

\* String.prototype.toLowerCase
toLowerCase(s) == [i \in 1..Len(s) |-> IF s[i] \in DOMAIN lowerCase THEN lowerCase[s[i]] ELSE s[i]]

getAudioEncoding(format) ==
    LET formatLower == toLowerCase(format) IN
    CASE formatLower = <<"m", "p", "3">> -> "MP3"
      [] formatLower = <<"w", "a", "v">> -> "LINEAR16"
      [] formatLower = <<"w", "a", "v", "e">> -> "LINEAR16"
      [] formatLower = <<"m", "p", "4">> -> "MP3"
      [] formatLower = <<"f", "l", "a", "c">> -> "FLAC"
      [] formatLower = <<"o", "g", "g">> -> "OGG_OPUS"
      [] formatLower = <<"m", "4", "a">> -> "MP3"
      [] OTHER -> "MP3"

\* The recognition config transcribeAudio builds for the first submission.
stereoConfig(audioFormat, languageMode) ==
    [encoding |-> getAudioEncoding(audioFormat),
     sampleRateHertz |-> 16000,
     audioChannelCount |-> 2,
     enableSeparateRecognitionPerChannel |-> FALSE,
     languageCode |-> CASE languageMode = "sinhala" -> "si-LK"
                        [] languageMode = "english" -> "en-US"
                        [] languageMode = "mixed" -> "si-LK"
                        [] OTHER -> "",
     alternativeLanguageCodes |-> IF languageMode = "mixed" THEN <<"en-US">> ELSE <<>>]

monoConfigStillStereo(config) == config

\* { ...config, audioChannelCount: 1 }
monoConfig(config) == [config EXCEPT !.audioChannelCount = 1]

\* An error of the provider: a message and the gRPC status code (0: no code).
PErr(code, text, kw) == [text |-> text, kw |-> kw, code |-> code]

NoErr == PErr(0, "", {})

ProviderErrors ==
    { PErr(16, "Request had invalid authentication credentials.", {"authentication"}),
      PErr(16, "invalid_grant: Invalid JWT Signature.", {}),
      PErr(7, "The caller does not have permission", {"permission"}),
      PErr(7, "Cloud Speech-to-Text API has not been used in project 1 before or it is disabled.", {}),
      PErr(5, "Requested entity was not found.", {"not found"}),
      PErr(5, "No such object: bucket/audio/1-k3j9x-a.wav.wav", {}),
      PErr(8, "Quota exceeded for quota metric 'Requests' of service 'speech.googleapis.com'", {"quota"}),
      PErr(8, "Resource has been exhausted.", {}),
      PErr(3, "Must use single channel (mono) audio, but WAV header indicates 2 channels.", {"channel", "mono"}),
      PErr(3, "Invalid audio channel count", {"channel"}),
      PErr(3, "sample_rate_hertz (16000) in RecognitionConfig must match the value in the WAV header (44100).", {}),
      PErr(3, "Invalid recognition 'config': model not found for language si-LK", {"not found"}),
      PErr(4, "Deadline exceeded", {}),
      PErr(0, "read ECONNRESET", {}) }

isChannelError(err) == Includes(err, "channel") \/ Includes(err, "mono")

\* The outer catch of transcribeAudio: the error it throws for a caught error.
speechError(err, languageMode) ==
    IF isChannelError(err)
    THEN Msg("Audio channel error: Please convert to mono (single-channel) audio.", {"channel", "mono"})
    ELSE IF err.code = 3
    THEN Msg("Invalid audio configuration for " \o languageMode \o " mode: " \o err.text, err.kw)
    ELSE IF err.code = 7
    THEN Msg("Permission denied: Check service account permissions", {"permission"})
    ELSE IF err.code = 16
    THEN Msg("Authentication failed: Check Google Cloud credentials", {})
    ELSE IF err.code = 4
    THEN Msg("Request timeout: Audio file might be too long", {})
    ELSE Msg("Speech-to-Text error (" \o languageMode \o " mode): " \o err.text, err.kw)

TResponse(status, error, body) == [status |-> status, error |-> error, body |-> body]

NoBody == [transcription |-> <<>>, confidence |-> Zero, language |-> "", segmentCount |-> 0,
           totalWords |-> 0, detectedLanguages |-> {}, primaryLanguage |-> ""]

NoTResp == TResponse(0, "", NoBody)

\* The catch block of the transcribe handler.
transcribeErrorResponse(err) ==
    IF Includes(err, "authentication")
    THEN TResponse(401, "Authentication failed. Check Google Cloud credentials.", NoBody)
    ELSE IF Includes(err, "permission")
    THEN TResponse(403, "Permission denied. Check service account permissions.", NoBody)
    ELSE IF Includes(err, "not found")
    THEN TResponse(404, "Audio file not found in storage bucket.", NoBody)
    ELSE IF Includes(err, "quota")
    THEN TResponse(429, "API quota exceeded. Please try again later.", NoBody)
    ELSE TResponse(500, "Transcription failed: " \o err.text, NoBody)

\* The 200 response of the transcribe handler.
transcribeSuccessResponse(result, languageMode) ==
    TResponse(200, "",
        [transcription |-> result.transcription,
         confidence |-> result.confidence,
         language |-> IF result.primaryLanguage # "" THEN result.primaryLanguage
                      ELSE modeLanguage(languageMode, "mixed"),
         segmentCount |-> result.segmentCount,
         totalWords |-> result.totalWords,
         detectedLanguages |-> result.detectedLanguages,
         primaryLanguage |-> result.primaryLanguage])

\* Inputs of the transcribe endpoint.  No sample URI contains a substring the
\* error mapping looks for.
GsUri == [scheme |-> "gs://", bucket |-> bucketName,
          key |-> fileName(1, "k3j9x", <<"a", ".", "w", "a", "v">>)]

UriSamples == {NoUri, GsUri, [GsUri EXCEPT !.scheme = "https://"]}

FormatSamples == {<<>>, <<"m", "p", "3">>, <<"W", "A", "V">>, <<"o", "g", "g">>,
                  <<"w", "e", "b", "m">>}

\* The format strings getAudioEncoding is applied to: the formats of its
\* switch, some it does not know, and every spelling of them in upper and
\* lower case.
BaseFormats == {<<"m", "p", "3">>, <<"w", "a", "v">>, <<"w", "a", "v", "e">>, <<"m", "p", "4">>,
                <<"f", "l", "a", "c">>, <<"o", "g", "g">>, <<"m", "4", "a">>,
                <<>>, <<"w", "e", "b", "m">>, <<"a", "a", "c">>, <<"w", "a">>}

RECURSIVE CaseVariants(_)
CaseVariants(s) ==
    IF s = <<>> THEN {<<>>}
    ELSE LET c == s[Len(s)]
             spellings == {c} \cup {p[2] : p \in {q \in LetterCases : q[1] = c}}
         IN  {Append(v, x) : v \in CaseVariants(SubSeq(s, 1, Len(s) - 1)), x \in spellings}

EncodingFormats == UNION {CaseVariants(f) : f \in BaseFormats}

\* A languageMode outside the LanguageMode type: the body is cast to the
\* request type, not validated.
OtherMode == "tamil"

TranscribeBodies == [gcsUri : UriSamples, audioFormat : FormatSamples,
                     languageMode : LanguageModes \cup {Undefined, OtherMode}]

NoRequest == [gcsUri |-> NoUri, audioFormat |-> <<>>, languageMode |-> Undefined]

\* Provider responses of the endpoint model: at most one result.
ResponseSamples == [results : SeqsUpTo(Results, 1)]

ProviderOutcomes ==
    [ok : {TRUE}, response : ResponseSamples, error : {NoErr}]
    \cup [ok : {FALSE}, response : {[results |-> <<>>]}, error : ProviderErrors]

\* The destructuring default taken to be 'sinhala'.
effectiveModeDefaultsToSinhala(body) ==
    IF body.languageMode = Undefined THEN "sinhala" ELSE body.languageMode

\* const { gcsUri, audioFormat, languageMode = 'mixed' } = body
effectiveMode(body) == IF body.languageMode = Undefined THEN "mixed" ELSE body.languageMode

(***************************************************************************)
(* The direct-provider (Whisper) endpoint.                                 *)
(***************************************************************************)
\* An error of the direct provider: an HTTP status (0: none) and a message.
WErr(status, text, kw) == [text |-> text, kw |-> kw, status |-> status]

NoWErr == WErr(0, "", {})

WhisperErrors ==
    { WErr(401, "Incorrect API key provided", {}),
      WErr(429, "Rate limit reached for whisper-1", {}),
      WErr(413, "Maximum content size limit (26214400) exceeded", {}),
      WErr(400, "Invalid file size", {"file size"}),
      WErr(400, "Invalid language 'si'", {"language"}),
      WErr(500, "The server had an error while processing your request", {}),
      WErr(0, "Connection error.", {}) }

\* transcription.segments?.length: NoSegments stands for a missing list.
NoSegments == -1

\* The verbose_json transcription of the direct provider.
WhisperTranscriptions == [text : SeqsUpTo(Chars, MaxLen), duration : {3}, segments : {NoSegments, 0, 2}]

NoTranscription == [text |-> <<>>, duration |-> 0, segments |-> NoSegments]

WhisperOutcomes ==
    [ok : {TRUE}, transcription : WhisperTranscriptions, error : {NoWErr}]
    \cup [ok : {FALSE}, transcription : {NoTranscription}, error : WhisperErrors]

NoWBody == [transcription |-> <<>>, confidence |-> Zero, language |-> "", totalWords |-> 0,
            duration |-> 0, segments |-> 0, model |-> "", detectedLanguage |-> ""]

WResponse(status, error, body) == [status |-> status, error |-> error, body |-> body]

NoWResp == WResponse(0, "", NoWBody)

\* The result the whisper handler builds from the provider's transcription.
whisperResult(transcription) ==
    LET text == transcription.text
        wordCount == IF text # <<>> THEN SplitLength(text) ELSE 0
        containsSinhala == CountIn(text, SinhalaBlock) > 0
    IN  [transcription |-> text,
         confidence |-> Fraction(90, 1),
         language |-> IF containsSinhala THEN "si-LK" ELSE "auto-detected",
         totalWords |-> wordCount,
         duration |-> transcription.duration,
         segments |-> IF transcription.segments = NoSegments \/ transcription.segments = 0
                      THEN 1 ELSE transcription.segments,
         model |-> "whisper-1",
         detectedLanguage |-> IF containsSinhala THEN "Sinhala" ELSE "Other"]

\* The catch block without its test of status 429.
whisperErrorResponseWithoutRateLimit(err) ==
    IF err.status = 401
    THEN WResponse(401, "Invalid OpenAI API key. Please check your credentials.", NoWBody)
    ELSE IF Includes(err, "file size")
    THEN WResponse(400, "File too large for OpenAI Whisper. Maximum size is 25MB.", NoWBody)
    ELSE IF Includes(err, "language") \/ Includes(err, "Language")
    THEN WResponse(400, "Language detection error. Whisper will auto-detect the language from your audio.", NoWBody)
    ELSE WResponse(500, "Whisper transcription failed: " \o err.text, NoWBody)

\* The catch block of the whisper handler.
whisperErrorResponse(err) ==
    IF err.status = 401
    THEN WResponse(401, "Invalid OpenAI API key. Please check your credentials.", NoWBody)
    ELSE IF err.status = 429
    THEN WResponse(429, "OpenAI API rate limit exceeded. Please try again later.", NoWBody)
    ELSE IF Includes(err, "file size")
    THEN WResponse(400, "File too large for OpenAI Whisper. Maximum size is 25MB.", NoWBody)
    ELSE IF Includes(err, "language") \/ Includes(err, "Language")
    THEN WResponse(400, "Language detection error. Whisper will auto-detect the language from your audio.", NoWBody)
    ELSE WResponse(500, "Whisper transcription failed: " \o err.text, NoWBody)

(***************************************************************************)
(* The client controller (AudioUploader): data.                            *)
(***************************************************************************)
ServiceTabs == {"google", "openai"}

\* The allowedTypes of handleFileSelect.
allowedTypesClient == {"audio/mpeg", "audio/mp3", "audio/mp4", "audio/wav", "audio/wave",
                       "video/mp4", "audio/webm", "audio/m4a", "audio/ogg", "audio/flac"}

\* The files the user picks in the file dialog.
SelectedFiles == [present : {TRUE},
                  name : {<<"a", ".", "W", "A", "V">>},
                  type : {"audio/wav", "text/plain"},
                  size : {1, maxSizeWhisper + 1, maxSize + 1},
                  readable : {TRUE}]

NullTranscription == [present |-> FALSE, transcription |-> <<>>, totalWords |-> 0, service |-> ""]

\* The TranscriptionResult bodies of the 200 responses.
ResultBodies == {[present |-> TRUE, transcription |-> <<"a">>, totalWords |-> 1, service |-> ""],
                 [present |-> TRUE, transcription |-> <<>>, totalWords |-> 0, service |-> ""]}

\* How a fetch settles: rejected (no response), or a response with a status
\* and a body that is JSON ("json"), not JSON ("text") or empty ("empty").
Fetched(rejected, status, kind, error, gcsUri, result) ==
    [rejected |-> rejected, status |-> status, kind |-> kind, error |-> error,
     gcsUri |-> gcsUri, result |-> result]

FetchRejected == Fetched(TRUE, 0, "empty", "", NoUri, NullTranscription)

\* A response that does not come from a handler: a gateway's error page or an
\* empty body.
ForeignResponses ==
    {Fetched(FALSE, 502, "text", "", NoUri, NullTranscription),
     Fetched(FALSE, 504, "empty", "", NoUri, NullTranscription),
     Fetched(FALSE, 200, "text", "", NoUri, NullTranscription)}

\* What fetch('/api/upload') can settle to for a file.
UploadFetches(file) ==
    {FetchRejected} \cup ForeignResponses
    \cup {Fetched(FALSE, 200, "json", "",
                  [scheme |-> "gs://", bucket |-> bucketName, key |-> fileName(t, r, file.name)],
                  NullTranscription) : t \in {1}, r \in RandomIds}
    \cup {Fetched(FALSE, 500, "json", "Authentication error. Please check server configuration.",
                  NoUri, NullTranscription)}

\* What fetch('/api/transcribe') can settle to.
TranscribeFetches ==
    {FetchRejected} \cup ForeignResponses
    \cup {Fetched(FALSE, 200, "json", "", NoUri, b) : b \in ResultBodies}
    \cup {Fetched(FALSE, 404, "json", "Audio file not found in storage bucket.",
                  NoUri, NullTranscription)}

\* What fetch('/api/whisper') can settle to.
WhisperFetches ==
    {FetchRejected} \cup ForeignResponses
    \cup {Fetched(FALSE, 200, "json", "", NoUri, b) : b \in ResultBodies}
    \cup {Fetched(FALSE, 400, "json", "File size too large. OpenAI Whisper supports files up to 25MB.",
                  NoUri, NullTranscription)}

\* response.ok taken to be true of every response.
okWhateverTheStatus(response) == TRUE

\* response.ok
ok(response) == response.status \in 200..299

\* errorData.error with the parsed body never used.
errorDataAlwaysFallback(response, fallback) == fallback

\* errorData.error of the `!response.ok` branch: the error member of the
\* parsed body, or the fallback when the body is empty or is not JSON.
errorData(response, fallback) ==
    IF response.kind = "json" THEN response.error ELSE fallback

\* The messages of the errors that fetch and JSON.parse throw.
FailedToFetch == "Failed to fetch"

UnexpectedToken == "Unexpected token < in JSON at position 0"

\* Whether a stage throws for the way its fetch settled: the fetch rejected,
\* the response is not OK, or JSON.parse of an OK body throws.
throws(response) == response.rejected \/ ~ok(response) \/ response.kind # "json"

\* The message of the error the stage then throws.
thrownMessage(response, fallback) ==
    IF response.rejected THEN FailedToFetch
    ELSE IF ~ok(response) THEN errorData(response, fallback)
    ELSE UnexpectedToken

\* file.name.split('.').pop()?.toLowerCase() || 'mp3'
audioFormatOf(file) == toLowerCase(extension(file.name))

\* modeDescription[languageMode]
modeDescription(languageMode) ==
    CASE languageMode = "sinhala" -> "Transcribing in Sinhala only..."
      [] languageMode = "english" -> "Transcribing in English only..."
      [] languageMode = "mixed" -> "Transcribing with mixed language support..."

\* A run of handleUploadAndTranscribe: where it is, the state its closure
\* captured, and how it ended.  A run that has ended keeps no captured state.
Run(pc, file, activeTab, languageMode, outcome, failedStage) ==
    [pc |-> pc, file |-> file, activeTab |-> activeTab, languageMode |-> languageMode,
     outcome |-> outcome, failedStage |-> failedStage]

\* An entry of the event log: a request issued with the gcsUri of its body,
\* or the way a fetch settled.
Requested(endpoint, run, gcsUri, audioFormat, languageMode) ==
    [type |-> "request", endpoint |-> endpoint, run |-> run, gcsUri |-> gcsUri,
     audioFormat |-> audioFormat, languageMode |-> languageMode, response |-> FetchRejected]

Settled(endpoint, run, response) ==
    [type |-> "settled", endpoint |-> endpoint, run |-> run, gcsUri |-> NoUri,
     audioFormat |-> <<>>, languageMode |-> "", response |-> response]

\* The log without the events of the runs that have ended.
EventsOfActiveRuns(events, runs) == SelectSeq(events, LAMBDA e : runs[e.run].pc # "done")

Pending(endpoint, run) == [endpoint |-> endpoint, run |-> run]

(***************************************************************************)
(* Every component at rest.                                                *)
(***************************************************************************)
IdleUpload ==
    /\ u_pc = "idle"
    /\ u_file = NoFile
    /\ u_key = NoKey
    /\ uploadAttempts = 0
    /\ u_calls = <<>>
    /\ u_writes = <<>>
    /\ u_waits = <<>>
    /\ u_resp = NoResp

IdleNormalize ==
    /\ n_pc = "idle"
    /\ n_response = [results |-> <<>>]
    /\ n_mode = "mixed"
    /\ n_result = NoResult

IdleTranscribe ==
    /\ t_pc = "idle"
    /\ t_req = NoRequest
    /\ t_subs = <<>>
    /\ t_outcomes = <<>>
    /\ t_result = NoResult
    /\ t_thrown = NoMsg
    /\ t_resp = NoTResp

IdleWhisper ==
    /\ w_pc = "idle"
    /\ w_file = NoFile
    /\ w_calls = <<>>
    /\ w_resp = NoWResp

IdleEncoding ==
    /\ e_pc = "idle"
    /\ e_format = <<>>
    /\ e_encoding = ""

IdleKeys ==
    /\ k_now = 0
    /\ k_pc = <<>>
    /\ k_name = <<>>
    /\ k_draw = <<>>
    /\ k_key = <<>>
    /\ k_writes = <<>>

IdleClient ==
    /\ c_activeTab = "google"
    /\ c_languageMode = "mixed"
    /\ c_file = NoFile
    /\ c_uploading = FALSE
    /\ c_transcribing = FALSE
    /\ c_transcription = NullTranscription
    /\ c_error = <<>>
    /\ c_uploadProgress = ""
    /\ c_runs = <<>>
    /\ c_events = <<>>
    /\ c_inflight = {}

(***************************************************************************)
(* The upload endpoint: the handler.                                       *)
(***************************************************************************)
InitUpload ==
    /\ env \in {e \in SUBSET EnvVars : "OPENAI_API_KEY" \in e}
    /\ u_pc = "start"
    /\ u_file = NoFile
    /\ u_key = NoKey
    /\ uploadAttempts = 0
    /\ u_calls = <<>>
    /\ u_writes = <<>>
    /\ u_waits = <<>>
    /\ u_resp = NoResp
    /\ IdleNormalize
    /\ IdleTranscribe
    /\ IdleWhisper
    /\ IdleEncoding
    /\ IdleKeys
    /\ IdleClient

\* lib/gcs.ts throws while the module is loaded when GCS_BUCKET_NAME is unset:
\* the handler never runs.
UploadModuleLoadFails ==
    /\ u_pc = "start"
    /\ "GCS_BUCKET_NAME" \notin env
    /\ u_pc' = "load_failed"
    /\ UNCHANGED <<env, u_file, u_key, uploadAttempts, u_calls, u_writes, u_waits, u_resp>>
    /\ UNCHANGED <<n_vars, t_vars, w_vars, e_vars, k_vars, c_vars>>

\* POST up to the retry loop: form parsing, validation, key generation and
\* conversion of the file to a buffer.
UploadReceive ==
    /\ u_pc = "start"
    /\ "GCS_BUCKET_NAME" \in env
    /\ \E file \in Files \cup {NoFile}, timestamp \in 1..MaxTime, randomId \in RandomIds :
        /\ u_file' = file
        /\ IF ~file.present
           THEN /\ u_resp' = Response(400, "No file provided", NoUri)
                /\ u_pc' = "done"
                /\ u_key' = NoKey
           ELSE IF file.type \notin allowedTypes
           THEN /\ u_resp' = Response(400, "Invalid file type: " \o file.type
                                           \o ". Supported: MP3, MP4, WAV, M4A, FLAC, OGG, WebM", NoUri)
                /\ u_pc' = "done"
                /\ u_key' = NoKey
           ELSE IF file.size > maxSize
           THEN /\ u_resp' = Response(400, "File size too large. Maximum 100MB allowed.", NoUri)
                /\ u_pc' = "done"
                /\ u_key' = NoKey
           ELSE /\ u_key' = fileName(timestamp, randomId, file.name)
                /\ IF file.readable
                   THEN u_pc' = "attempt" /\ u_resp' = NoResp
                   ELSE /\ u_resp' = Response(400, "Failed to process file data", NoUri)
                        /\ u_pc' = "done"
    /\ UNCHANGED <<env, uploadAttempts, u_calls, u_writes, u_waits>>
    /\ UNCHANGED <<n_vars, t_vars, w_vars, e_vars, k_vars, c_vars>>

\* One iteration of the retry loop: the call of uploadToGCS and, when it
\* throws, the catch block up to the backoff timer.
UploadAttempt ==
    /\ u_pc = "attempt"
    /\ uploadAttempts < maxAttempts
    /\ \E save \in SaveOutcomes :
        LET r == uploadToGCS(env, u_key, save) IN
        /\ u_calls' = Append(u_calls, r)
        /\ u_writes' = IF r.saved THEN Append(u_writes, u_key) ELSE u_writes
        /\ IF r.ok
           THEN /\ u_resp' = Response(200, "", r.gcsUri)
                /\ u_pc' = "done"
                /\ UNCHANGED <<uploadAttempts, u_waits>>
           ELSE /\ uploadAttempts' = uploadAttempts + 1
                /\ IF uploadAttempts' >= maxAttempts
                   THEN /\ u_resp' = Response(500, uploadErrorBody(r.error), NoUri)
                        /\ u_pc' = "done"
                        /\ UNCHANGED u_waits
                   ELSE /\ u_waits' = Append(u_waits, backoffDelay(uploadAttempts'))
                        /\ u_pc' = "backoff"
                        /\ UNCHANGED u_resp
    /\ UNCHANGED <<env, u_file, u_key>>
    /\ UNCHANGED <<n_vars, t_vars, w_vars, e_vars, k_vars, c_vars>>

\* The backoff timer fires and the loop continues.
UploadBackoffElapsed ==
    /\ u_pc = "backoff"
    /\ u_pc' = "attempt"
    /\ UNCHANGED <<env, u_file, u_key, uploadAttempts, u_calls, u_writes, u_waits, u_resp>>
    /\ UNCHANGED <<n_vars, t_vars, w_vars, e_vars, k_vars, c_vars>>

NextUpload ==
    \/ UploadModuleLoadFails
    \/ UploadReceive
    \/ UploadAttempt
    \/ UploadBackoffElapsed

SpecUpload == InitUpload /\ [][NextUpload]_vars

(***************************************************************************)
(* The transcribe endpoint: the handler.                                   *)
(***************************************************************************)
InitTranscribe ==
    /\ env \in {e \in SUBSET EnvVars : {"GCS_BUCKET_NAME", "OPENAI_API_KEY"} \subseteq e}
    /\ IdleUpload
    /\ IdleNormalize
    /\ IdleWhisper
    /\ IdleEncoding
    /\ IdleKeys
    /\ IdleClient
    /\ t_pc = "start"
    /\ t_req = NoRequest
    /\ t_subs = <<>>
    /\ t_outcomes = <<>>
    /\ t_result = NoResult
    /\ t_thrown = NoMsg
    /\ t_resp = NoTResp

\* POST up to the first await of the provider: body parsing, validation, the
\* environment check, and transcribeAudio up to longRunningRecognize.
TranscribeReceive ==
    /\ t_pc = "start"
    /\ \E body \in TranscribeBodies :
        LET languageMode == effectiveMode(body) IN
        /\ t_req' = body
        /\ IF body.gcsUri = NoUri
           THEN /\ t_resp' = TResponse(400, "GCS URI required", NoBody)
                /\ t_pc' = "done"
                /\ UNCHANGED <<t_subs, t_thrown>>
           ELSE IF body.audioFormat = <<>>
           THEN /\ t_resp' = TResponse(400, "Audio format required", NoBody)
                /\ t_pc' = "done"
                /\ UNCHANGED <<t_subs, t_thrown>>
           ELSE IF ~credentialsPresent(env)
           THEN /\ t_resp' = TResponse(500, "Server configuration error: Missing credentials", NoBody)
                /\ t_pc' = "done"
                /\ UNCHANGED <<t_subs, t_thrown>>
           ELSE IF body.gcsUri.scheme # "gs://"
           THEN LET thrown == speechError(PErr(0, "Invalid GCS URI", {}), languageMode) IN
                /\ t_thrown' = thrown
                /\ t_resp' = transcribeErrorResponse(thrown)
                /\ t_pc' = "done"
                /\ UNCHANGED t_subs
           ELSE /\ t_subs' = <<stereoConfig(body.audioFormat, languageMode)>>
                /\ t_pc' = "stereo"
                /\ UNCHANGED <<t_resp, t_thrown>>
    /\ UNCHANGED <<env, t_outcomes, t_result>>
    /\ UNCHANGED <<u_vars, n_vars, w_vars, e_vars, k_vars, c_vars>>

\* The first (stereo) recognition settles: a response is normalized and
\* answered; a channel/mono error submits the mono configuration; any other
\* error goes through both catch blocks to the error response.
TranscribeStereoSettles ==
    /\ t_pc = "stereo"
    /\ \E outcome \in ProviderOutcomes :
        LET languageMode == effectiveMode(t_req) IN
        /\ t_outcomes' = Append(t_outcomes, outcome)
        /\ IF outcome.ok
           THEN LET result == processTranscriptionResponse(outcome.response, languageMode) IN
                /\ t_result' = result
                /\ t_resp' = transcribeSuccessResponse(result, languageMode)
                /\ t_pc' = "done"
                /\ UNCHANGED <<t_subs, t_thrown>>
           ELSE IF isChannelError(outcome.error)
           THEN /\ t_subs' = Append(t_subs, monoConfig(t_subs[1]))
                /\ t_pc' = "mono"
                /\ UNCHANGED <<t_result, t_resp, t_thrown>>
           ELSE LET thrown == speechError(outcome.error, languageMode) IN
                /\ t_thrown' = thrown
                /\ t_resp' = transcribeErrorResponse(thrown)
                /\ t_pc' = "done"
                /\ UNCHANGED <<t_subs, t_result>>
    /\ UNCHANGED <<env, t_req>>
    /\ UNCHANGED <<u_vars, n_vars, w_vars, e_vars, k_vars, c_vars>>

\* The mono recognition settles: its error is not caught by the inner catch.
TranscribeMonoSettles ==
    /\ t_pc = "mono"
    /\ \E outcome \in ProviderOutcomes :
        LET languageMode == effectiveMode(t_req) IN
        /\ t_outcomes' = Append(t_outcomes, outcome)
        /\ IF outcome.ok
           THEN LET result == processTranscriptionResponse(outcome.response, languageMode) IN
                /\ t_result' = result
                /\ t_resp' = transcribeSuccessResponse(result, languageMode)
                /\ t_pc' = "done"
                /\ UNCHANGED t_thrown
           ELSE LET thrown == speechError(outcome.error, languageMode) IN
                /\ t_thrown' = thrown
                /\ t_resp' = transcribeErrorResponse(thrown)
                /\ t_pc' = "done"
                /\ UNCHANGED t_result
    /\ UNCHANGED <<env, t_req, t_subs>>
    /\ UNCHANGED <<u_vars, n_vars, w_vars, e_vars, k_vars, c_vars>>

NextTranscribe ==
    \/ TranscribeReceive
    \/ TranscribeStereoSettles
    \/ TranscribeMonoSettles

SpecTranscribe == InitTranscribe /\ [][NextTranscribe]_vars

(***************************************************************************)
(* The direct-provider endpoint: the handler.                              *)
(***************************************************************************)
\* The OpenAI client is constructed with the same key when the module is
\* loaded; what its constructor does with an absent key is the SDK's business
\* and not modelled: the handler's own check is.
InitWhisper ==
    /\ env \in {e \in SUBSET EnvVars : EnvVars \ {"OPENAI_API_KEY"} \subseteq e}
    /\ IdleUpload
    /\ IdleNormalize
    /\ IdleTranscribe
    /\ IdleEncoding
    /\ IdleKeys
    /\ IdleClient
    /\ w_pc = "start"
    /\ w_file = NoFile
    /\ w_calls = <<>>
    /\ w_resp = NoWResp

\* POST up to the await of the provider: the API key check, form parsing and
\* validation, and the call of openai.audio.transcriptions.create.
WhisperReceive ==
    /\ w_pc = "start"
    /\ \E audioFile \in Files \cup {NoFile} :
        /\ w_file' = audioFile
        /\ IF "OPENAI_API_KEY" \notin env
           THEN /\ w_resp' = WResponse(500, "OpenAI API key not configured. Please add OPENAI_API_KEY to environment variables.", NoWBody)
                /\ w_pc' = "done"
           ELSE IF ~audioFile.present
           THEN /\ w_resp' = WResponse(400, "No audio file provided", NoWBody)
                /\ w_pc' = "done"
           ELSE IF audioFile.size > maxSizeWhisper
           THEN /\ w_resp' = WResponse(400, "File size too large. OpenAI Whisper supports files up to 25MB.", NoWBody)
                /\ w_pc' = "done"
           ELSE IF audioFile.type \notin allowedTypesWhisper
           THEN /\ w_resp' = WResponse(400, "Invalid file type: " \o audioFile.type
                                    \o ". Whisper supports MP3, MP4, WAV, M4A, FLAC, OGG, WebM", NoWBody)
                /\ w_pc' = "done"
           ELSE /\ w_pc' = "provider"
                /\ w_resp' = NoWResp
    /\ UNCHANGED <<env, w_calls>>
    /\ UNCHANGED <<u_vars, n_vars, t_vars, e_vars, k_vars, c_vars>>

\* The provider call settles.
WhisperSettles ==
    /\ w_pc = "provider"
    /\ \E outcome \in WhisperOutcomes :
        /\ w_calls' = Append(w_calls, outcome)
        /\ w_resp' = IF outcome.ok
                     THEN WResponse(200, "", whisperResult(outcome.transcription))
                     ELSE whisperErrorResponse(outcome.error)
        /\ w_pc' = "done"
    /\ UNCHANGED <<env, w_file>>
    /\ UNCHANGED <<u_vars, n_vars, t_vars, e_vars, k_vars, c_vars>>

NextWhisper ==
    \/ WhisperReceive
    \/ WhisperSettles

SpecWhisper == InitWhisper /\ [][NextWhisper]_vars

(***************************************************************************)
(* processTranscriptionResponse applied to every bounded provider response.*)
(***************************************************************************)
\* Results of one short word each, for responses of three segments.
ShortResults ==
    {r \in Results : /\ r.languageCode = ""
                     /\ Len(r.alternatives) <= 1
                     /\ \A i \in 1..Len(r.alternatives) :
                            r.alternatives[i].transcript \in {<<>>, <<"a">>}}

Responses ==
    [results : SeqsUpTo(Results, MaxResults)]
    \cup [results : {<<a, b, c>> : a \in ShortResults, b \in ShortResults, c \in ShortResults}]

InitNormalize ==
    /\ env = EnvVars
    /\ IdleUpload
    /\ IdleTranscribe
    /\ IdleWhisper
    /\ IdleEncoding
    /\ IdleKeys
    /\ IdleClient
    /\ n_pc = "input"
    /\ n_response \in Responses
    /\ n_mode \in LanguageModes
    /\ n_result = NoResult

NormalizeApply ==
    /\ n_pc = "input"
    /\ n_result' = processTranscriptionResponse(n_response, n_mode)
    /\ n_pc' = "done"
    /\ UNCHANGED <<env, n_response, n_mode>>
    /\ UNCHANGED <<u_vars, t_vars, w_vars, e_vars, k_vars, c_vars>>

NextNormalize == NormalizeApply

SpecNormalize == InitNormalize /\ [][NextNormalize]_vars

(***************************************************************************)
(* getAudioEncoding applied to every sampled format string.                *)
(***************************************************************************)
InitEncoding ==
    /\ env = EnvVars
    /\ IdleUpload
    /\ IdleNormalize
    /\ IdleTranscribe
    /\ IdleWhisper
    /\ IdleKeys
    /\ IdleClient
    /\ e_pc = "input"
    /\ e_format \in EncodingFormats
    /\ e_encoding = ""

EncodingApply ==
    /\ e_pc = "input"
    /\ e_encoding' = getAudioEncoding(e_format)
    /\ e_pc' = "done"
    /\ UNCHANGED <<env, e_format>>
    /\ UNCHANGED <<u_vars, n_vars, t_vars, w_vars, k_vars, c_vars>>

NextEncoding == EncodingApply

SpecEncoding == InitEncoding /\ [][NextEncoding]_vars

(***************************************************************************)
(* Concurrent upload requests: each generates its storage key from the     *)
(* clock and a random id and then saves its payload under it.  The files   *)
(* pass validation and every save succeeds.                                *)
(***************************************************************************)
Requests == 1..MaxRequests

KeyNames == {<<"a", ".", "w", "a", "v">>, <<"a", " ", "b">>}

NoDraw == [timestamp |-> 0, randomId |-> ""]

InitKeys ==
    /\ env = EnvVars
    /\ IdleUpload
    /\ IdleNormalize
    /\ IdleTranscribe
    /\ IdleWhisper
    /\ IdleEncoding
    /\ IdleClient
    /\ k_now = 1
    /\ k_pc = [r \in Requests |-> "start"]
    /\ k_name \in [Requests -> KeyNames]
    /\ k_draw = [r \in Requests |-> NoDraw]
    /\ k_key = [r \in Requests |-> NoKey]
    /\ k_writes = <<>>

\* Date.now() moves on.
KeysTick ==
    /\ k_now < MaxTime
    /\ k_now' = k_now + 1
    /\ UNCHANGED <<env, k_pc, k_name, k_draw, k_key, k_writes>>
    /\ UNCHANGED <<u_vars, n_vars, t_vars, w_vars, e_vars, c_vars>>

\* Lines 49-54 of POST for request r.
KeysGenerate(r) ==
    /\ k_pc[r] = "start"
    /\ \E randomId \in RandomIds :
        /\ k_draw' = [k_draw EXCEPT ![r] = [timestamp |-> k_now, randomId |-> randomId]]
        /\ k_key' = [k_key EXCEPT ![r] = fileName(k_now, randomId, k_name[r])]
    /\ k_pc' = [k_pc EXCEPT ![r] = "generated"]
    /\ UNCHANGED <<env, k_now, k_name, k_writes>>
    /\ UNCHANGED <<u_vars, n_vars, t_vars, w_vars, e_vars, c_vars>>

\* file.save for request r: the object at the key now holds r's payload.
KeysSave(r) ==
    /\ k_pc[r] = "generated"
    /\ k_writes' = Append(k_writes, [key |-> keyString(k_key[r]), payload |-> r])
    /\ k_pc' = [k_pc EXCEPT ![r] = "saved"]
    /\ UNCHANGED <<env, k_now, k_name, k_draw, k_key>>
    /\ UNCHANGED <<u_vars, n_vars, t_vars, w_vars, e_vars, c_vars>>

NextKeys ==
    \/ KeysTick
    \/ \E r \in Requests : KeysGenerate(r)
    \/ \E r \in Requests : KeysSave(r)

SpecKeys == InitKeys /\ [][NextKeys]_vars

(***************************************************************************)
(* The client controller (AudioUploader): the user's actions and the       *)
(* continuations of handleUploadAndTranscribe.  Each action is one         *)
(* synchronous stretch of code with the state updates it batches.          *)
(***************************************************************************)
OtherVarsOfClient == <<env, u_vars, n_vars, t_vars, w_vars, e_vars, k_vars>>

InitClient ==
    /\ env = EnvVars
    /\ IdleUpload
    /\ IdleNormalize
    /\ IdleTranscribe
    /\ IdleWhisper
    /\ IdleEncoding
    /\ IdleKeys
    /\ c_activeTab = "google"
    /\ c_languageMode = "mixed"
    /\ c_file = NoFile
    /\ c_uploading = FALSE
    /\ c_transcribing = FALSE
    /\ c_transcription = NullTranscription
    /\ c_error = <<>>
    /\ c_uploadProgress = ""
    /\ c_runs = <<>>
    /\ c_events = <<>>
    /\ c_inflight = {}

handleTabChange(tab) ==
    /\ c_activeTab' = tab
    /\ c_transcription' = NullTranscription
    /\ c_error' = <<>>
    /\ c_uploadProgress' = ""
    /\ UNCHANGED <<c_languageMode, c_file, c_uploading, c_transcribing, c_runs, c_events, c_inflight>>
    /\ UNCHANGED OtherVarsOfClient

handleLanguageModeChange(mode) ==
    /\ c_languageMode' = mode
    /\ c_transcription' = NullTranscription
    /\ c_error' = <<>>
    /\ UNCHANGED <<c_activeTab, c_file, c_uploading, c_transcribing, c_uploadProgress,
                   c_runs, c_events, c_inflight>>
    /\ UNCHANGED OtherVarsOfClient

handleFileSelect(selectedFile) ==
    /\ LET maxSizeOfTab == IF c_activeTab = "openai" THEN maxSizeWhisper ELSE maxSize
           maxSizeLabel == IF c_activeTab = "openai" THEN "25MB" ELSE "100MB"
       IN  IF selectedFile.size > maxSizeOfTab
           THEN /\ c_error' = <<"File too large. Maximum " \o maxSizeLabel \o " allowed.">>
                /\ UNCHANGED <<c_file, c_transcription, c_uploadProgress>>
           ELSE IF selectedFile.type \notin allowedTypesClient
           THEN /\ c_error' = <<"Invalid file type: " \o selectedFile.type>>
                /\ UNCHANGED <<c_file, c_transcription, c_uploadProgress>>
           ELSE /\ c_file' = selectedFile
                /\ c_transcription' = NullTranscription
                /\ c_error' = <<>>
                /\ c_uploadProgress' = ""
    /\ UNCHANGED <<c_activeTab, c_languageMode, c_uploading, c_transcribing,
                   c_runs, c_events, c_inflight>>
    /\ UNCHANGED OtherVarsOfClient

\* The Reset button, rendered for a selected file and disabled while busy.
resetForm ==
    /\ c_file # NoFile
    /\ ~(c_uploading \/ c_transcribing)
    /\ c_file' = NoFile
    /\ c_transcription' = NullTranscription
    /\ c_error' = <<>>
    /\ c_uploadProgress' = ""
    /\ UNCHANGED <<c_activeTab, c_languageMode, c_uploading, c_transcribing,
                   c_runs, c_events, c_inflight>>
    /\ UNCHANGED OtherVarsOfClient

\* The record of the runs keeps how a run ended until the next run starts.
EndedRuns(runs) == [r \in 1..Len(runs) |-> Run("done", NoFile, "", "", "", "")]

\* The Transcribe button, rendered for a selected file and disabled while
\* busy: handleUploadAndTranscribe up to the first fetch of the service.
handleUploadAndTranscribe ==
    /\ c_file # NoFile
    /\ ~(c_uploading \/ c_transcribing)
    /\ Len(c_runs) < MaxRuns
    /\ LET run == Len(c_runs) + 1
           endpoint == IF c_activeTab = "google" THEN "upload" ELSE "whisper"
       IN  /\ c_runs' = Append(EndedRuns(c_runs),
                                Run(endpoint, c_file, c_activeTab, c_languageMode, "", ""))
           /\ c_events' = Append(EventsOfActiveRuns(c_events, c_runs),
                                 Requested(endpoint, run, NoUri, <<>>,
                                           IF endpoint = "whisper" THEN c_languageMode ELSE ""))
           /\ c_inflight' = c_inflight \cup {Pending(endpoint, run)}
    /\ c_uploading' = (c_activeTab = "google")
    /\ c_transcribing' = (c_activeTab # "google")
    /\ c_error' = <<>>
    /\ c_transcription' = NullTranscription
    /\ c_uploadProgress' = IF c_activeTab = "google" THEN "Uploading to Google Cloud..."
                           ELSE "Transcribing with OpenAI Whisper..."
    /\ UNCHANGED <<c_activeTab, c_languageMode, c_file>>
    /\ UNCHANGED OtherVarsOfClient

\* The catch block of handleUploadAndTranscribe without its finally block.
RunFailsWithoutFinally(r, stage, errorMessage) ==
    /\ c_runs' = [c_runs EXCEPT ![r] = Run("done", NoFile, "", "", "failed", stage)]
    /\ c_error' = <<errorMessage>>
    /\ c_uploadProgress' = ""
    /\ UNCHANGED <<c_uploading, c_transcribing>>
    /\ UNCHANGED c_transcription

\* The catch and finally blocks of handleUploadAndTranscribe for run r.
RunFails(r, stage, errorMessage) ==
    /\ c_runs' = [c_runs EXCEPT ![r] = Run("done", NoFile, "", "", "failed", stage)]
    /\ c_error' = <<errorMessage>>
    /\ c_uploadProgress' = ""
    /\ c_uploading' = FALSE
    /\ c_transcribing' = FALSE
    /\ UNCHANGED c_transcription

\* The end of a service handler and the finally block for run r.
RunSucceeds(r, result, service) ==
    /\ c_runs' = [c_runs EXCEPT ![r] = Run("done", NoFile, "", "", "success", "")]
    /\ c_transcription' = [result EXCEPT !.service = service]
    /\ c_uploadProgress' = ""
    /\ c_uploading' = FALSE
    /\ c_transcribing' = FALSE
    /\ UNCHANGED c_error

\* fetch('/api/upload') of run r settles: handleGoogleTranscription from the
\* first await up to the fetch of '/api/transcribe', or up to its throw.
UploadSettles(r) ==
    /\ c_runs[r].pc = "upload"
    /\ \E response \in UploadFetches(c_runs[r].file) :
        IF throws(response)
        THEN /\ RunFails(r, "upload", thrownMessage(response, "Upload failed"))
             /\ c_events' = Append(c_events, Settled("upload", r, response))
             /\ c_inflight' = c_inflight \ {Pending("upload", r)}
        ELSE /\ c_uploading' = FALSE
             /\ c_transcribing' = TRUE
             /\ c_uploadProgress' = modeDescription(c_runs[r].languageMode)
             /\ c_runs' = [c_runs EXCEPT ![r] = [@ EXCEPT !.pc = "transcribe"]]
             /\ c_events' = c_events \o
                    <<Settled("upload", r, response),
                      Requested("transcribe", r, response.gcsUri,
                                audioFormatOf(c_runs[r].file), c_runs[r].languageMode)>>
             /\ c_inflight' = (c_inflight \ {Pending("upload", r)})
                                  \cup {Pending("transcribe", r)}
             /\ UNCHANGED <<c_transcription, c_error>>
    /\ UNCHANGED <<c_activeTab, c_languageMode, c_file>>
    /\ UNCHANGED OtherVarsOfClient

\* fetch('/api/transcribe') of run r settles: the rest of
\* handleGoogleTranscription.
TranscribeSettles(r) ==
    /\ c_runs[r].pc = "transcribe"
    /\ \E response \in TranscribeFetches :
        /\ c_inflight' = c_inflight \ {Pending("transcribe", r)}
        /\ c_events' = Append(c_events, Settled("transcribe", r, response))
        /\ IF throws(response)
           THEN RunFails(r, "transcribe", thrownMessage(response, "Transcription failed"))
           ELSE RunSucceeds(r, response.result, "google")
    /\ UNCHANGED <<c_activeTab, c_languageMode, c_file>>
    /\ UNCHANGED OtherVarsOfClient

\* fetch('/api/whisper') of run r settles: the rest of
\* handleOpenAITranscription.
WhisperFetchSettles(r) ==
    /\ c_runs[r].pc = "whisper"
    /\ \E response \in WhisperFetches :
        /\ c_inflight' = c_inflight \ {Pending("whisper", r)}
        /\ c_events' = Append(c_events, Settled("whisper", r, response))
        /\ IF throws(response)
           THEN RunFails(r, "whisper", thrownMessage(response, "Transcription failed"))
           ELSE RunSucceeds(r, response.result, "openai")
    /\ UNCHANGED <<c_activeTab, c_languageMode, c_file>>
    /\ UNCHANGED OtherVarsOfClient

NextClient ==
    \/ \E tab \in ServiceTabs : handleTabChange(tab)
    \/ \E mode \in LanguageModes : handleLanguageModeChange(mode)
    \/ \E selectedFile \in SelectedFiles : handleFileSelect(selectedFile)
    \/ resetForm
    \/ handleUploadAndTranscribe
    \/ \E r \in 1..Len(c_runs) : UploadSettles(r)
    \/ \E r \in 1..Len(c_runs) : TranscribeSettles(r)
    \/ \E r \in 1..Len(c_runs) : WhisperFetchSettles(r)

SpecClient == InitClient /\ [][NextClient]_vars

\* Every fetch settles: the promise of a started fetch resolves or rejects, and
\* the event loop then runs the continuation that awaits it.
FetchesSettle ==
    /\ WF_vars(\E r \in 1..Len(c_runs) : UploadSettles(r))
    /\ WF_vars(\E r \in 1..Len(c_runs) : TranscribeSettles(r))
    /\ WF_vars(\E r \in 1..Len(c_runs) : WhisperFetchSettles(r))

SpecClientFair == SpecClient /\ FetchesSettle

(***************************************************************************)
(* One request, to one of the three endpoints.                             *)
(***************************************************************************)
Init ==
    \/ InitUpload
    \/ InitTranscribe
    \/ InitWhisper

Next ==
    \/ NextUpload
    \/ NextTranscribe
    \/ NextWhisper

Spec == Init /\ [][Next]_vars

(***************************************************************************)
(* Properties.                                                             *)
(***************************************************************************)
UploadFailed(i) == i \in DOMAIN u_calls /\ ~u_calls[i].ok

\* C1: one upload request calls the storage uploader at most 3 times; when
\* calls 1 and 2 fail and call 3 succeeds the request ends with status 200
\* after exactly 3 calls; when all 3 calls fail it ends with status 500 and
\* the body made from the third call's error; there is no fourth call.
C1_RetryBudget ==
    /\ Len(u_calls) <= 3
    /\ Len(u_writes) <= Len(u_calls)
    /\ (Len(u_calls) = 3 /\ UploadFailed(1) /\ UploadFailed(2) /\ u_calls[3].ok)
           => (u_pc = "done" /\ u_resp.status = 200)
    /\ (u_resp.status = 200 /\ UploadFailed(1) /\ UploadFailed(2)) => Len(u_calls) = 3
    /\ (UploadFailed(1) /\ UploadFailed(2) /\ UploadFailed(3))
           => /\ u_pc = "done"
              /\ u_resp.status = 500
              /\ u_resp.error = uploadErrorBody(u_calls[3].error)

C1_Witness ==
    /\ u_pc = "done"
    /\ Len(u_calls) = 3
    /\ UploadFailed(1) /\ UploadFailed(2) /\ u_calls[3].ok
    /\ u_calls[1].error # u_calls[2].error
    /\ u_resp.status = 200

HasChannelText(err) == "channel" \in err.kw \/ "mono" \in err.kw

\* C2: the first submission of transcribeAudio has audioChannelCount 2; a
\* second submission is made exactly when the first one failed with a
\* channel/mono message, and it has audioChannelCount 1 and per-channel
\* recognition disabled; any other first failure is surfaced without a second
\* submission; there are never more than 2 submissions, and a failure of the
\* mono submission ends the call whatever its message.
C2_ChannelFallback ==
    /\ Len(t_subs) <= 2
    /\ Len(t_outcomes) <= Len(t_subs)
    /\ Len(t_subs) >= 1 => t_subs[1].audioChannelCount = 2
    /\ Len(t_subs) = 2
          => /\ t_subs[2].audioChannelCount = 1
             /\ ~t_subs[2].enableSeparateRecognitionPerChannel
             /\ t_subs[2] = [t_subs[1] EXCEPT !.audioChannelCount = 1]
             /\ ~t_outcomes[1].ok
             /\ HasChannelText(t_outcomes[1].error)
    /\ (Len(t_outcomes) >= 1 /\ ~t_outcomes[1].ok /\ HasChannelText(t_outcomes[1].error))
          => Len(t_subs) = 2
    /\ (Len(t_outcomes) >= 1 /\ ~t_outcomes[1].ok /\ ~HasChannelText(t_outcomes[1].error))
          => /\ Len(t_subs) = 1
             /\ t_pc = "done"
             /\ t_thrown # NoMsg
             /\ t_resp.status \in {401, 403, 404, 429, 500}
    /\ Len(t_outcomes) = 2 => t_pc = "done"

C2_Witness ==
    /\ t_pc = "done"
    /\ Len(t_subs) = 2
    /\ Len(t_outcomes) = 2
    /\ ~t_outcomes[2].ok
    /\ HasChannelText(t_outcomes[2].error)

SpecAllowedTypes == {"audio/mpeg", "audio/mp3", "audio/mp4", "audio/wav", "audio/wave",
                     "audio/m4a", "audio/flac", "audio/ogg", "audio/webm", "video/mp4"}

UploadValidated == u_pc \in {"attempt", "backoff", "done"} /\ u_file.present

WhisperValidated == w_pc \in {"provider", "done"} /\ w_file.present /\ "OPENAI_API_KEY" \in env

\* C3: in a request that reaches validation (a file is present and, for the
\* direct provider, the API key is configured), a file of an allowed type
\* whose size is at most the ceiling (104857600 bytes for /api/upload,
\* 26214400 bytes for /api/whisper) passes validation; a file one byte
\* larger, or larger, is answered 400; a file of a type outside the allowed
\* set is answered 400 whatever its size.
C3_SizeTypeBoundary ==
    /\ (UploadValidated /\ u_file.type \in SpecAllowedTypes /\ u_file.size <= 104857600)
          => /\ u_key # NoKey
             /\ u_resp.status = 400 => (~u_file.readable /\ u_calls = <<>>)
    /\ (UploadValidated /\ u_file.size > 104857600) => (u_resp.status = 400 /\ u_key = NoKey)
    /\ (UploadValidated /\ u_file.type \notin SpecAllowedTypes)
          => (u_resp.status = 400 /\ u_key = NoKey)
    /\ (WhisperValidated /\ w_file.type \in SpecAllowedTypes /\ w_file.size <= 26214400)
          => (w_pc = "provider" \/ Len(w_calls) = 1)
    /\ (WhisperValidated /\ w_file.size > 26214400) => (w_resp.status = 400 /\ w_calls = <<>>)
    /\ (WhisperValidated /\ w_file.type \notin SpecAllowedTypes)
          => (w_resp.status = 400 /\ w_calls = <<>>)

C3_Witness ==
    /\ u_pc = "done"
    /\ u_file.present
    /\ u_file.size = 104857600
    /\ u_resp.status = 200

CredentialsMissing == ~({"GCP_PROJECT_ID", "GCS_CLIENT_EMAIL", "GCS_PRIVATE_KEY"} \subseteq env)

\* C4: a request that is invalid (no file, a type outside the allowed set, a
\* size over the ceiling, no gcsUri, no audioFormat) or that finds a required
\* credential or API key absent is answered 400 or 500 without a single
\* file.save in the upload endpoint and without a single provider submission
\* in the transcribe and whisper endpoints.
C4_FailFast ==
    /\ (u_pc \notin {"idle", "start", "load_failed"}
        /\ (~u_file.present \/ u_file.type \notin SpecAllowedTypes
            \/ u_file.size > 104857600 \/ CredentialsMissing))
          => /\ u_writes = <<>>
             /\ u_pc = "done" => u_resp.status \in {400, 500}
    /\ u_resp.status = 400 => (u_writes = <<>> /\ u_calls = <<>>)
    /\ (t_pc \notin {"idle", "start"}
        /\ (t_req.gcsUri = NoUri \/ t_req.audioFormat = <<>> \/ CredentialsMissing))
          => (t_subs = <<>> /\ t_pc = "done" /\ t_resp.status \in {400, 500})
    /\ t_resp.status = 400 => t_subs = <<>>
    /\ (w_pc \notin {"idle", "start"}
        /\ (~w_file.present \/ w_file.type \notin SpecAllowedTypes
            \/ w_file.size > 26214400 \/ "OPENAI_API_KEY" \notin env))
          => (w_calls = <<>> /\ w_pc = "done" /\ w_resp.status \in {400, 500})

C4_Witness ==
    /\ u_pc = "done"
    /\ CredentialsMissing
    /\ Len(u_calls) = 3
    /\ u_writes = <<>>
    /\ u_resp.status = 500

PermanentUploadError(call) ==
    /\ ~call.ok
    /\ \/ ~call.saved
       \/ call.error.text \in
            {"Invalid Google Cloud private key format. Please check your credentials.",
             "Google Cloud authentication failed. Please verify your service account credentials."}

\* C5: when uploadToGCS fails with a configuration error (a credential is
\* missing) or an authentication/credential error, the upload request calls
\* it exactly once and ends at once, without a backoff wait.
C5_OnlyTransientRetried ==
    \A i \in DOMAIN u_calls :
        PermanentUploadError(u_calls[i])
            => (Len(u_calls) = 1 /\ u_waits = <<>> /\ u_pc = "done" /\ u_resp.status = 500)

LastOutcome == t_outcomes[Len(t_outcomes)]

ProviderFailureSurfaced == t_pc = "done" /\ t_outcomes # <<>> /\ ~LastOutcome.ok

\* C6: a provider failure with code 16 (unauthenticated) and no channel/mono
\* text is answered with status 401 by the transcribe endpoint.
C6_AuthenticationIs401 ==
    (ProviderFailureSurfaced /\ LastOutcome.error.code = 16 /\ ~HasChannelText(LastOutcome.error))
        => t_resp.status = 401

\* C7: the transcribe endpoint answers a provider failure by its class:
\* permission denied (code 7) 403, not found (code 5) 404, quota exhaustion
\* (code 8) 429, a failure of no mapped class 500, and an authentication
\* failure (code 16) never with the status of another mapped class.
C7_StatusByClass ==
    ProviderFailureSurfaced =>
        LET code == LastOutcome.error.code IN
        /\ code = 7 => t_resp.status = 403
        /\ code = 5 => t_resp.status = 404
        /\ code = 8 => t_resp.status = 429
        /\ code = 16 => t_resp.status \notin {403, 404, 429}
        /\ code \notin {5, 7, 8, 16} => t_resp.status = 500

\* C8: an otherwise valid transcribe request (audioFormat present,
\* credentials configured) whose gcsUri is present but does not start with
\* gs:// is answered 400 and makes no provider submission.
C8_BadSchemeIs400 ==
    (t_pc = "done" /\ t_req.gcsUri # NoUri /\ t_req.gcsUri.scheme # "gs://"
     /\ t_req.audioFormat # <<>> /\ ~CredentialsMissing)
        => (t_resp.status = 400 /\ t_subs = <<>>)

\* C9: when the provider operation that ends the call completes with zero
\* results, transcribeAudio returns (throws nothing) a result with an empty
\* transcript, confidence 0, segmentCount 0, totalWords 0 and a non-empty
\* message, and the transcribe endpoint answers 200 with the empty transcript.
C9_NoSpeechIsSuccess ==
    (t_pc = "done" /\ t_outcomes # <<>> /\ LastOutcome.ok /\ LastOutcome.response.results = <<>>)
        => /\ t_thrown = NoMsg
           /\ t_result.transcription = <<>>
           /\ t_result.confidence.num = 0
           /\ t_result.segmentCount = 0
           /\ t_result.totalWords = 0
           /\ t_result.message # ""
           /\ t_resp.status = 200
           /\ t_resp.error = ""
           /\ t_resp.body.transcription = <<>>
           /\ t_resp.body.segmentCount = 0

C9_Witness ==
    /\ t_pc = "done"
    /\ Len(t_outcomes) = 2
    /\ LastOutcome.ok
    /\ LastOutcome.response.results = <<>>
    /\ t_resp.status = 200

\* C10: every result of processTranscriptionResponse with segmentCount 0 has
\* an empty transcription, confidence 0, totalWords 0 and a non-empty message,
\* also for a non-empty result list of which no result yields a transcript.
C10_ZeroSegmentsShape ==
    (n_pc = "done" /\ n_result.segmentCount = 0)
        => /\ n_result.transcription = <<>>
           /\ n_result.confidence.num = 0
           /\ n_result.totalWords = 0
           /\ n_result.message # ""

\* A result contributes a segment when it has a first alternative with a
\* non-empty transcript.
Contributes(r) ==
    /\ Len(r.alternatives) > 0
    /\ r.alternatives[1].hasTranscript
    /\ r.alternatives[1].transcript # <<>>

\* s without its leading and trailing whitespace.
Trimmed(s) ==
    LET solid == {i \in 1..Len(s) : s[i] # " "}
    IN  IF solid = {} THEN <<>>
        ELSE SubSeq(s, CHOOSE i \in solid : \A j \in solid : i <= j,
                       CHOOSE i \in solid : \A j \in solid : i >= j)

\* The index of the k-th contributing result.
NthContributing(results, k) ==
    CHOOSE i \in 1..Len(results) :
        /\ Contributes(results[i])
        /\ Cardinality({j \in 1..i : Contributes(results[j])}) = k

\* The text the k-th contributing result gives to the transcript.
Piece(results, k) == Trimmed(results[NthContributing(results, k)].alternatives[1].transcript)

\* Where that text starts in the transcript: after the texts before it and
\* one space behind each of them.
RECURSIVE PieceStart(_, _)
PieceStart(results, k) ==
    IF k = 1 THEN 1
    ELSE PieceStart(results, k - 1) + Len(Piece(results, k - 1)) + 1

\* C11: the normalized transcript consists of the trimmed first-alternative
\* transcripts of the contributing results, in provider order, with exactly
\* one space between two neighbours and nothing else: no text is dropped,
\* duplicated or reordered.
C11_TranscriptInOrder ==
    n_pc = "done" =>
        LET results == n_response.results
            n == Cardinality({i \in 1..Len(results) : Contributes(results[i])})
            T == n_result.transcription
        IN  /\ n_result.segmentCount = n
            /\ \A k \in 1..n :
                  /\ PieceStart(results, k) + Len(Piece(results, k)) - 1 <= Len(T)
                  /\ SubSeq(T, PieceStart(results, k),
                            PieceStart(results, k) + Len(Piece(results, k)) - 1)
                         = Piece(results, k)
                  /\ k > 1 => T[PieceStart(results, k) - 1] = " "
            /\ Len(T) = IF n = 0 THEN 0
                        ELSE PieceStart(results, n) + Len(Piece(results, n)) - 1

C11_Witness ==
    /\ n_pc = "done"
    /\ Len(n_response.results) = 2
    /\ Len(n_response.results[1].alternatives) = 2
    /\ n_response.results[1].alternatives[1].transcript = <<"a">>
    /\ Len(n_response.results[2].alternatives) = 1
    /\ n_response.results[2].alternatives[1].transcript = <<" ", "U+0D85">>
    /\ n_result.transcription = <<"a", " ", "U+0D85">>

\* The number of words of s: its maximal runs of non-whitespace characters.
Words(s) == Cardinality({i \in 1..Len(s) : s[i] # " " /\ (i = 1 \/ s[i - 1] = " ")})

\* C12: totalWords is the number of whitespace-separated words of the final
\* transcript, 0 for an empty transcript, also when segments are
\* whitespace-only or carry leading or trailing whitespace.
C12_WordCount ==
    n_pc = "done" => n_result.totalWords = Words(n_result.transcription)

\* The sum of value * (number of contributing results with that confidence)
\* over a set of confidence values.
RECURSIVE WeightedSum(_, _)
WeightedSum(values, results) ==
    IF values = {} THEN 0
    ELSE LET v == CHOOSE x \in values : TRUE
         IN  v * Cardinality({i \in 1..Len(results) :
                                 Contributes(results[i]) /\ results[i].alternatives[1].confidence = v})
             + WeightedSum(values \ {v}, results)

\* C13: the confidence is the arithmetic mean over exactly the results with a
\* non-empty first transcript, a missing confidence counting as 0; results
\* without a transcript add neither to the sum nor to the divisor; it is 0
\* when no result contributes, and lies in [0, 1] as the provider's values do.
C13_MeanConfidence ==
    n_pc = "done" =>
        LET results == n_response.results
            n == Cardinality({i \in 1..Len(results) : Contributes(results[i])})
            values == {results[i].alternatives[1].confidence :
                          i \in {j \in 1..Len(results) : Contributes(results[j])}}
        IN  /\ n > 0 => /\ n_result.confidence.den = n
                        /\ n_result.confidence.num
                               = WeightedSum(values \ {NoConfidence}, results)
            /\ n = 0 => n_result.confidence.num = 0
            /\ n_result.confidence.den > 0
            /\ 0 <= n_result.confidence.num
            /\ n_result.confidence.num <= 100 * n_result.confidence.den

C13_Witness ==
    /\ n_pc = "done"
    /\ Len(n_response.results) = 3
    /\ \A i \in 1..3 : Contributes(n_response.results[i])
    /\ n_response.results[1].alternatives[1].confidence = 90
    /\ n_response.results[2].alternatives[1].confidence = 70
    /\ n_response.results[3].alternatives[1].confidence = NoConfidence
    /\ n_result.confidence = [num |-> 160, den |-> 3]

\* The number of characters of s that lie in a set of characters.
Occurrences(s, set) == Len(SelectSeq(s, LAMBDA c : c \in set))

\* C14: in mixed mode the primary language is 'si-LK' when the transcript has
\* more Sinhala-block characters than Latin letters, 'en-US' when it has more
\* Latin letters, and 'mixed' on a tie (0 against 0 included); in the sinhala
\* and english modes it is the mode's tag whatever the transcript holds.
C14_PrimaryLanguage ==
    n_pc = "done" =>
        LET si == Occurrences(n_result.transcription, {"U+0D85"})
            en == Occurrences(n_result.transcription, {"a", "b"})
        IN  /\ (n_mode = "mixed" /\ si > en) => n_result.primaryLanguage = "si-LK"
            /\ (n_mode = "mixed" /\ en > si) => n_result.primaryLanguage = "en-US"
            /\ (n_mode = "mixed" /\ si = en) => n_result.primaryLanguage = "mixed"
            /\ n_mode = "sinhala" => n_result.primaryLanguage = "si-LK"
            /\ n_mode = "english" => n_result.primaryLanguage = "en-US"

C14_Witness ==
    /\ n_pc = "done"
    /\ n_mode = "mixed"
    /\ n_result.transcription = <<"U+0D85", "a", " ", "a", "U+0D85">>
    /\ n_result.primaryLanguage = "mixed"

\* Two strings that differ at most in the case of their letters.
SameIgnoringCase(s, t) ==
    /\ Len(s) = Len(t)
    /\ \A i \in 1..Len(s) :
          \/ s[i] = t[i]
          \/ <<s[i], t[i]>> \in LetterCases
          \/ <<t[i], s[i]>> \in LetterCases

\* C15: encoding resolution returns, for every format string and whatever its
\* case, LINEAR16 for wav and wave, FLAC for flac, OGG_OPUS for ogg, and MP3
\* for mp3, mp4, m4a and every other string (webm and the empty string
\* included); it always returns one of these encodings.
C15_EncodingTotal ==
    e_pc = "done" =>
        e_encoding =
            IF \/ SameIgnoringCase(e_format, <<"w", "a", "v">>)
               \/ SameIgnoringCase(e_format, <<"w", "a", "v", "e">>)
            THEN "LINEAR16"
            ELSE IF SameIgnoringCase(e_format, <<"f", "l", "a", "c">>) THEN "FLAC"
            ELSE IF SameIgnoringCase(e_format, <<"o", "g", "g">>) THEN "OGG_OPUS"
            ELSE "MP3"

C15_Witness ==
    /\ e_pc = "done"
    /\ e_format = <<"W", "a", "V", "E">>
    /\ e_encoding = "LINEAR16"

BothGenerated(r1, r2) == r1 # r2 /\ k_pc[r1] # "start" /\ k_pc[r2] # "start"

KeySafeChars ==
    {"a", "b", "c", "d", "e", "f", "g", "h", "i", "j", "k", "l", "m",
     "n", "o", "p", "q", "r", "s", "t", "u", "v", "w", "x", "y", "z",
     "A", "B", "C", "D", "E", "F", "G", "H", "I", "J", "K", "L", "M",
     "N", "O", "P", "Q", "R", "S", "T", "U", "V", "W", "X", "Y", "Z",
     "0", "1", "2", "3", "4", "5", "6", "7", "8", "9", ".", "-"}

\* The key is audio/<timestamp>-<random-id>-<sanitized-name>.<extension>, the
\* extension being what follows the last dot of the original name.
KeyHasForm ==
    /\ u_key.prefix = "audio/"
    /\ u_key.timestamp \in 1..MaxTime
    /\ u_key.randomId \in RandomIds
    /\ Len(u_key.cleanName) <= 50
    /\ \E d \in 0..Len(u_file.name) :
          /\ d = 0 \/ u_file.name[d] = "."
          /\ \A i \in (d + 1)..Len(u_file.name) : u_file.name[i] # "."
          /\ u_key.extension = IF d = Len(u_file.name) THEN <<"m", "p", "3">>
                               ELSE SubSeq(u_file.name, d + 1, Len(u_file.name))

\* C18 as stated: the sanitized name is the original name with every
\* character outside [A-Za-z0-9.-] stripped, cut to at most 50 characters,
\* and so has only characters of [A-Za-z0-9.-].
C18_KeyFormStripped ==
    u_key # NoKey =>
        /\ KeyHasForm
        /\ u_key.cleanName =
              LET kept == SelectSeq(u_file.name, LAMBDA c : c \in KeySafeChars)
              IN  SubSeq(kept, 1, Min(50, Len(kept)))
        /\ \A i \in 1..Len(u_key.cleanName) : u_key.cleanName[i] \in KeySafeChars

\* C18 amended: every character of the original name outside [A-Za-z0-9.-] is
\* replaced by '_' and the result is cut to its first 50 characters, so the
\* sanitized name has only characters of [A-Za-z0-9._-].
C18_KeyFormReplaced ==
    u_key # NoKey =>
        /\ KeyHasForm
        /\ Len(u_key.cleanName) = Min(50, Len(u_file.name))
        /\ \A i \in 1..Len(u_key.cleanName) :
              u_key.cleanName[i] = IF u_file.name[i] \in KeySafeChars THEN u_file.name[i] ELSE "_"
        /\ \A i \in 1..Len(u_key.cleanName) : u_key.cleanName[i] \in KeySafeChars \cup {"_"}

C18_Witness ==
    /\ u_key # NoKey
    /\ u_file.name = LongName
    /\ Len(u_key.cleanName) = 50
    /\ u_key.cleanName[2] = "_"
    /\ u_key.extension = <<"w", "a", "v">>

\* The entry of the log at which the upload of run r settled with a gcsUri.
UploadReturned(i, r, gcsUri) ==
    /\ c_events[i].type = "settled"
    /\ c_events[i].endpoint = "upload"
    /\ c_events[i].run = r
    /\ ~c_events[i].response.rejected
    /\ c_events[i].response.status \in 200..299
    /\ c_events[i].response.kind = "json"
    /\ c_events[i].response.gcsUri = gcsUri

\* C19: in the queued-provider flow a transcribe request is issued only after
\* the upload request of the same run has been answered successfully, and it
\* carries the gcsUri of that answer; a run whose upload failed issues no
\* transcribe request; the upload and the transcribe request of one run are
\* never in flight together.
C19_UploadBeforeTranscribe ==
    /\ \A i \in 1..Len(c_events) :
          (c_events[i].type = "request" /\ c_events[i].endpoint = "transcribe")
              => /\ c_events[i].gcsUri # NoUri
                 /\ \E j \in 1..(i - 1) : UploadReturned(j, c_events[i].run, c_events[i].gcsUri)
                 /\ Pending("upload", c_events[i].run) \notin c_inflight
    /\ \A j \in 1..Len(c_events) :
          (/\ c_events[j].type = "settled"
           /\ c_events[j].endpoint = "upload"
           /\ \/ c_events[j].response.rejected
              \/ c_events[j].response.status \notin 200..299)
              => \A i \in 1..Len(c_events) :
                    ~(/\ c_events[i].type = "request"
                      /\ c_events[i].endpoint = "transcribe"
                      /\ c_events[i].run = c_events[j].run)
    /\ \A r \in 1..Len(c_runs) :
          ~(Pending("upload", r) \in c_inflight /\ Pending("transcribe", r) \in c_inflight)

C19_Witness ==
    /\ Len(c_events) = 4
    /\ c_events[1].type = "request" /\ c_events[1].endpoint = "upload"
    /\ UploadReturned(2, 2, [scheme |-> "gs://", bucket |-> bucketName,
                             key |-> fileName(1, "q0z7m", <<"a", ".", "W", "A", "V">>)])
    /\ c_events[3].type = "request" /\ c_events[3].endpoint = "transcribe"
    /\ c_events[3].gcsUri = c_events[2].response.gcsUri
    /\ c_events[3].audioFormat = <<"w", "a", "v">>
    /\ c_events[4].type = "settled" /\ c_events[4].endpoint = "transcribe"
    /\ c_runs[2].outcome = "success"

\* C20: a run that fails on a response that is not OK displays the error
\* member of the response body when the body is JSON, and the fallback of the
\* failed stage ('Upload failed', 'Transcription failed') only when the body
\* is empty or is not JSON; every run that fails ends with a non-empty error
\* displayed.
C20_ErrorDisplayed ==
    [][\A r \in 1..Len(c_runs) :
          (c_runs[r].pc # "done" /\ c_runs'[r].pc = "done" /\ c_runs'[r].outcome = "failed")
              => LET response == c_events'[Len(c_events')].response
                     notOk == ~response.rejected /\ response.status \notin 200..299
                     fallback == IF c_runs[r].pc = "upload" THEN "Upload failed"
                                 ELSE "Transcription failed"
                 IN  /\ c_error' # <<>>
                     /\ c_error'[1] # ""
                     /\ (notOk /\ response.kind = "json") => c_error' = <<response.error>>
                     /\ (notOk /\ response.kind # "json") => c_error' = <<fallback>>
                     /\ c_error' = <<fallback>> => (notOk /\ response.kind # "json")]_vars

C20_Witness ==
    /\ Len(c_runs) = 1
    /\ c_runs[1].outcome = "failed"
    /\ c_runs[1].failedStage = "transcribe"
    /\ c_events[Len(c_events)].response.status = 404
    /\ c_error = <<"Audio file not found in storage bucket.">>
    /\ ~c_uploading
    /\ ~c_transcribing

\* Run r ends in failure in this step, in the given stage.
FailsIn(r, stage) ==
    /\ c_runs[r].pc = stage
    /\ c_runs'[r].pc = "done"
    /\ c_runs'[r].outcome = "failed"

\* C21: the error a failed run ends in tells the failed stage: the error set
\* by a run that fails in the upload stage is never one that a failure of the
\* transcription stage sets, and the other way round.
C21_StageDistinguished ==
    [][\A r \in 1..Len(c_runs) :
          /\ FailsIn(r, "upload") =>
                \A response \in {f \in TranscribeFetches : throws(f)} :
                    c_error' # <<thrownMessage(response, "Transcription failed")>>
          /\ FailsIn(r, "transcribe") =>
                \A response \in {f \in UploadFetches(c_runs[r].file) : throws(f)} :
                    c_error' # <<thrownMessage(response, "Upload failed")>>]_vars

\* The provider call of the whisper request failed with the given HTTP status.
ProviderFailedWith(status) ==
    /\ w_calls # <<>>
    /\ ~w_calls[1].ok
    /\ w_calls[1].error.status = status

\* C22: the whisper endpoint answers 401 when the provider answered 401, 429
\* when the provider answered 429, 500 without a provider call when the API
\* key is not configured, and 400 or 500 for every other failure; a success
\* is a 200 carrying the transcription, confidence, language, totalWords,
\* duration, segments and model.
C22_WhisperStatuses ==
    w_pc = "done" =>
        /\ "OPENAI_API_KEY" \notin env => (w_resp.status = 500 /\ w_calls = <<>>)
        /\ ProviderFailedWith(401) => w_resp.status = 401
        /\ ProviderFailedWith(429) => w_resp.status = 429
        /\ (w_calls = <<>> \/ (~w_calls[1].ok /\ w_calls[1].error.status \notin {401, 429}))
              => w_resp.status \in {400, 500}
        /\ (w_calls # <<>> /\ w_calls[1].ok)
              => /\ Len(w_calls) = 1
                 /\ w_resp.status = 200
                 /\ w_resp.error = ""
                 /\ w_resp.body.transcription = w_calls[1].transcription.text
                 /\ w_resp.body.confidence = Fraction(90, 1)
                 /\ w_resp.body.language \in {"si-LK", "auto-detected"}
                 /\ w_resp.body.totalWords >= 0
                 /\ w_resp.body.duration = w_calls[1].transcription.duration
                 /\ w_resp.body.segments >= 1
                 /\ w_resp.body.model = "whisper-1"

C22_Witness ==
    /\ w_pc = "done"
    /\ ProviderFailedWith(429)
    /\ w_resp.status = 429

\* The values the storage path needs.
StorageConfigMissing ==
    CredentialsMissing \/ "GCS_BUCKET_NAME" \notin env

\* C23: configuration is looked at when a request is handled, never when the
\* program starts: no module fails to load for a missing value, and on each
\* path a request that passes validation while a required value (project id,
\* service-account email, private key, bucket name, API key) is missing is
\* answered 500.
C23_ConfigAtCallTime ==
    /\ u_pc # "load_failed"
    /\ (u_pc = "done" /\ u_key # NoKey /\ u_file.readable /\ StorageConfigMissing)
          => u_resp.status = 500
    /\ (t_pc = "done" /\ t_req.gcsUri # NoUri /\ t_req.audioFormat # <<>> /\ CredentialsMissing)
          => t_resp.status = 500
    /\ (w_pc = "done" /\ "OPENAI_API_KEY" \notin env) => w_resp.status = 500

\* C24: the waits between upload attempts follow the schedule 1 s, 2 s: 1000
\* ms after the first failed attempt, 2000 ms after the second; a wait follows
\* every failed attempt but the final one, and an attempt is made only when
\* every earlier attempt has failed and its wait has been started and has
\* elapsed.
C24_BackoffSchedule ==
    /\ Len(u_waits) >= 1 => u_waits[1] = 1000
    /\ Len(u_waits) >= 2 => u_waits[2] = 2000
    /\ Len(u_waits) = (IF uploadAttempts < maxAttempts THEN uploadAttempts ELSE maxAttempts - 1)
    /\ u_pc = "attempt" => (Len(u_calls) = Len(u_waits) /\ \A i \in 1..Len(u_calls) : ~u_calls[i].ok)
    /\ u_pc = "backoff" => Len(u_calls) = Len(u_waits)

\* C25: every attempt of one upload request writes the key generated before
\* the retry loop, so the request stores at most one object, and the gcsUri
\* of a success names that key in the bucket.
C25_SameKeyEveryAttempt ==
    /\ \A i \in 1..Len(u_writes) : u_writes[i] = u_key /\ u_key # NoKey
    /\ Cardinality({u_writes[i] : i \in 1..Len(u_writes)}) <= 1
    /\ u_resp.status = 200
          => /\ u_writes # <<>>
             /\ u_resp.gcsUri = [scheme |-> "gs://", bucket |-> bucketName, key |-> u_key]

C25_Witness ==
    /\ u_pc = "done"
    /\ u_resp.status = 200
    /\ Len(u_writes) = 3
    /\ uploadAttempts = 2

\* The characters the sanitizer leaves in a name: [A-Za-z0-9.-] and the '_'
\* it puts in place of every other character.
SanitizedAlphabet == KeySafeChars \cup {"_"}

\* C26: apart from the prefix 'audio/', every character of a generated key,
\* the extension included, is in the sanitizer's alphabet, whatever accepted
\* name the file has.
C26_KeySafe ==
    u_key # NoKey =>
        /\ u_key.prefix = "audio/"
        /\ \A i \in 1..Len(u_key.cleanName) : u_key.cleanName[i] \in SanitizedAlphabet
        /\ \A i \in 1..Len(u_key.extension) : u_key.extension[i] \in SanitizedAlphabet

\* The runs that have started and not ended.
ActiveRuns == {r \in 1..Len(c_runs) : c_runs[r].pc # "done"}

\* C27: uploading and transcribing are never both true; a run starts only
\* while both are false, so at most one run is active and a flag is true
\* exactly while one is; and whenever a run is active, a state follows where no
\* run is active and both flags are false: every started run ends, with
\* success or failure, and leaves both flags false.
C27_RunsEnd ==
    /\ [](~(c_uploading /\ c_transcribing))
    /\ [](/\ Cardinality(ActiveRuns) <= 1
          /\ (c_uploading \/ c_transcribing) <=> ActiveRuns # {})
    /\ [][Len(c_runs') > Len(c_runs) => ~(c_uploading \/ c_transcribing)]_vars
    /\ (ActiveRuns # {}) ~> (ActiveRuns = {} /\ ~c_uploading /\ ~c_transcribing)

C27_Witness ==
    /\ Len(c_runs) = 2
    /\ c_runs[1].pc = "done"
    /\ c_runs[2].outcome = "success"
    /\ ~c_uploading
    /\ ~c_transcribing

\* C28: an error and a transcription are never displayed together: the error
\* and the transcription are never both non-null.
C28_ErrorOrTranscription ==
    ~(c_error # <<>> /\ c_transcription.present)

\* C29: a run started on the OpenAI tab is on a file of at most 25 MiB: the
\* size limit checked when the file was selected still holds when the file is
\* submitted, whatever tab changes came between.
C29_WhisperRunWithinLimit ==
    \A r \in 1..Len(c_runs) :
        (c_runs[r].pc # "done" /\ c_runs[r].activeTab = "openai")
            => c_runs[r].file.size <= 26214400

\* C30: a displayed result belongs to the current selection: the service that
\* produced the displayed transcription is the service of the active tab, so
\* a run started before a tab change never displays its result after it.
C30_ResultOfCurrentSelection ==
    c_transcription.present => c_transcription.service = c_activeTab

====
